---- MODULE Spec2Model ----
(***************************************************************************)
(* SeedVest backend: the contribution status/penalty engine                *)
(* (finance/models.py), the monthly auto-saving generator                  *)
(* (finance/management/commands/generate_monthly_contributions.py) and     *)
(* the M-Pesa payment reconciliation (payments/views.py,                   *)
(* payments/signals.py).                                                   *)
(*                                                                         *)
(* Dates are the integers yyyymmdd, so that the order of dates is the      *)
(* order of integers.  Money is counted in cents (Decimal with 2 places).  *)
(***************************************************************************)
EXTENDS Integers, FiniteSets, Sequences, TLC

\* ------------------------------------------------------------------------
\* Bounds of the model
\* ------------------------------------------------------------------------
MaxMonths == 3        \* months of the calendar window
MaxContribs == 2      \* Contribution rows ever inserted
MaxTxns == 1          \* MpesaTransaction rows
MaxNotifs == 2        \* notifications of one kind for one recipient
NumRuns == 2          \* invocations of the generator command
NumConfigs == 1       \* AutoSavingConfig rows and their users
MaxUsers == 3         \* accounts.User rows ever inserted
MaxAudits == 3        \* accounts.AuditLog rows
MaxPenalties == 2     \* finance.Penalty rows linked to no contribution
MaxRateRows == 5      \* contributions of a monthly report

\* The calendar window starts in November 2025, so that it holds a
\* December -> January roll-over.
WindowStart == [year |-> 2025, month |-> 11]

\* ------------------------------------------------------------------------
\* Program constants (finance/constants.py), in cents
\* ------------------------------------------------------------------------
FIXED_MONTHLY_PENALTY == 10000
PENALTY_RATE_PERCENT == 5
PENALTY_MODE == "FIXED"
MIN_MONTHLY_SAVING == 50000

\* ------------------------------------------------------------------------
\* Calendar
\* ------------------------------------------------------------------------
NoDate == 0           \* paid_date = None

MkDate(y, m, d) == y * 10000 + m * 100 + d
YearOf(dt) == dt \div 10000
MonthOf(dt) == (dt \div 100) % 100

IsLeap(y) == (y % 4 = 0 /\ y % 100 # 0) \/ y % 400 = 0

\* calendar.monthrange(year, month)[1]
DaysInMonth(y, m) ==
    IF m = 2 THEN (IF IsLeap(y) THEN 29 ELSE 28)
    ELSE IF m \in {4, 6, 9, 11} THEN 30 ELSE 31

MonthIdx == 0 .. (MaxMonths - 1)
WinYear(i) == WindowStart.year + ((WindowStart.month - 1 + i) \div 12)
WinMonth(i) == ((WindowStart.month - 1 + i) % 12) + 1

\* date(year, month, 1) of the i-th month of the window
TargetDate(i) == MkDate(WinYear(i), WinMonth(i), 1)

\* The days the clock and the request inputs range over: the first and the
\* last day of every month of the window.
Dates ==
    UNION { { MkDate(WinYear(i), WinMonth(i), d) :
                d \in {1, DaysInMonth(WinYear(i), WinMonth(i))} } :
            i \in MonthIdx }

FirstDate == CHOOSE d \in Dates : \A e \in Dates : d <= e

\* ------------------------------------------------------------------------
\* Contribution status and penalty engine (finance/models.py)
\* ------------------------------------------------------------------------
STATUS_CHOICES == {"PENDING", "PAID", "LATE", "OVERDUE"}

\* Mutants of evaluate_status
evaluate_status_TodayFirst(c, now) ==
    IF now > c.due_date THEN "OVERDUE"
    ELSE IF c.paid_date # NoDate THEN "PAID"
    ELSE "PENDING"

evaluate_status_NoOverdue(c, now) ==
    IF c.paid_date # NoDate
    THEN (IF c.paid_date > c.due_date THEN "LATE" ELSE "PAID")
    ELSE "PENDING"

evaluate_status_NoLate(c, now) ==
    IF c.paid_date # NoDate THEN "PAID"
    ELSE IF now > c.due_date THEN "OVERDUE"
    ELSE "PENDING"

\* Contribution.evaluate_status, with today = now
evaluate_status(c, now) ==
    IF c.paid_date # NoDate
    THEN (IF c.paid_date > c.due_date THEN "LATE" ELSE "PAID")
    ELSE IF now > c.due_date THEN "OVERDUE"
    ELSE "PENDING"

\* Mutant of penalty_start: the year is not rolled after December
penalty_start_SameYear(due) ==
    LET m == MonthOf(due)
        next_month == IF m = 12 THEN 1 ELSE m + 1
    IN  MkDate(YearOf(due), next_month, 1)

\* date(year, next_month, 1): the first day of the month after due_date's
penalty_start(due) ==
    LET m == MonthOf(due)
        next_month == IF m = 12 THEN 1 ELSE m + 1
        year == IF m = 12 THEN YearOf(due) + 1 ELSE YearOf(due)
    IN  MkDate(year, next_month, 1)

\* datetime.MAXYEAR: date() raises ValueError for a later year
MAXYEAR == 9999

\* date(year, next_month, 1) raises ValueError: due_date is in December of
\* the last year a date can have
PenaltyStartRaises(due) == MonthOf(due) = 12 /\ YearOf(due) + 1 > MAXYEAR

\* calculate_suggested_penalty raises: the contribution is unpaid and its
\* penalty start is not a date
SuggestionRaises(c) == c.paid_date = NoDate /\ PenaltyStartRaises(c.due_date)

\* Mutant of calculate_suggested_penalty: a paid contribution is not
\* exempted
calculate_suggested_penalty_IgnoresPaid(c, now) ==
    IF now < penalty_start(c.due_date) THEN 0
    ELSE IF PENALTY_MODE = "FIXED" THEN FIXED_MONTHLY_PENALTY
    ELSE IF PENALTY_MODE = "RATE" THEN (PENALTY_RATE_PERCENT * c.amount) \div 100
    ELSE 0

\* Contribution.calculate_suggested_penalty, with today = now
calculate_suggested_penalty(c, now) ==
    IF c.paid_date # NoDate THEN 0
    ELSE IF now < penalty_start(c.due_date) THEN 0
    ELSE IF PENALTY_MODE = "FIXED" THEN FIXED_MONTHLY_PENALTY
    ELSE IF PENALTY_MODE = "RATE" THEN (PENALTY_RATE_PERCENT * c.amount) \div 100
    ELSE 0

\* Mutant of EvaluatedRow: the suggested penalty is written over any stored one
EvaluatedRow_Overwrite(c, now) ==
    [c EXCEPT !.status = evaluate_status(c, now),
              !.penalty = calculate_suggested_penalty(c, now)]

\* The row Contribution.save() hands to the database: the status is always
\* re-derived from the dates, the suggested penalty is taken only when the
\* stored penalty is zero.
EvaluatedRow(c, now) ==
    [c EXCEPT !.status = evaluate_status(c, now),
              !.penalty = IF c.penalty = 0
                          THEN calculate_suggested_penalty(c, now)
                          ELSE c.penalty]

\* Keyword arguments django.db.models.Model.save() accepts.  Contribution.save
\* forwards **kwargs to it unchanged; any other keyword raises TypeError
\* before anything is written.
ModelSaveKwargs == {"force_insert", "force_update", "using", "update_fields"}
SaveRaises(kwargs) == ~(kwargs \subseteq ModelSaveKwargs)


\* ------------------------------------------------------------------------
\* State
\* ------------------------------------------------------------------------
Configs == 1 .. NumConfigs
Users == 1 .. NumConfigs
Runs == 1 .. NumRuns
CheckoutIds == 1 .. MaxTxns
NoRow == [none |-> TRUE]

\* membership_number = None
NoNumber == [none |-> TRUE]

\* A deleted User row: its id is not handed out again (AutoField)
NoUser == [deleted |-> TRUE]

\* The characters int() reads as decimal digits, by value
DigitChars == <<"0", "1", "2", "3", "4", "5", "6", "7", "8", "9">>

\* str(n) of a natural number, as a sequence of characters
RECURSIVE Decimal(_)
Decimal(n) ==
    IF n < 10 THEN <<DigitChars[n + 1]>>
    ELSE Decimal(n \div 10) \o <<DigitChars[(n % 10) + 1]>>

\* f"{n:04d}": the decimal digits, padded with zeros on the left to four
RECURSIVE ZeroPadded(_, _)
ZeroPadded(text, width) ==
    IF Len(text) >= width THEN text ELSE ZeroPadded(<<"0">> \o text, width)

Format04d(n) == ZeroPadded(Decimal(n), 4)

\* f"MBR-{year}-{new_number:04d}".  A membership number is kept as the text
\* before its last "-" (tag and year) and the characters after it.
MembershipNumber(year, new_number) ==
    [tag |-> "MBR", year |-> year, last |-> Format04d(new_number)]

\* The users the finance requests are made for: approved, active members
Members ==
    [u \in Users |->
        [role |-> "MEMBER", is_superuser |-> FALSE, is_active |-> TRUE,
         is_approved |-> TRUE, application_status |-> "APPROVED",
         membership_number |-> MembershipNumber(WindowStart.year, u)]]

VARIABLES
    today,        \* date.today() / timezone.now().date()  (TIME_ZONE = "UTC")
    contribs,     \* committed Contribution rows, by id
    contribSeq,   \* last id the Contribution table handed out
    configs,      \* AutoSavingConfig rows, by id
    gens,         \* committed MonthlySavingGeneration rows
    notifs,       \* committed Notification rows: how many of each kind
    txns,         \* MpesaTransaction rows, by checkout_request_id
    run,          \* the invocations of generate_monthly_contributions
    users,        \* accounts.User rows, by id (NoUser: the row was deleted)
    audits,       \* accounts.AuditLog rows, oldest first
    penalties,    \* finance.Penalty rows linked to no contribution
    last          \* the last request handled and its HTTP answer

vars == <<today, contribs, contribSeq, configs, gens, notifs, txns, run,
          users, audits, penalties, last>>

\* The tables of the accounts and of the standalone penalties
accounts == <<users, audits, penalties>>

IdleRun ==
    [pc |-> "idle", target |-> NoDate, due |-> NoDate, dry |-> FALSE,
     todo |-> <<>>, cur |-> 0, created |-> 0, skipped |-> 0, row |-> NoRow,
     snapshot |-> {}, pre |-> {}]

Init ==
    /\ today = FirstDate
    /\ contribs = <<>>
    /\ contribSeq = 0
    /\ configs = [c \in Configs |->
                    [user |-> c, group |-> 1,
                     amount |-> MIN_MONTHLY_SAVING * c,
                     is_active |-> TRUE]]
    /\ gens = {}
    /\ notifs = <<>>
    /\ txns = <<>>
    /\ run = [r \in Runs |-> IdleRun]
    /\ users = Members
    /\ audits = <<>>
    /\ penalties = <<>>
    /\ last = [op |-> "init", http |-> 0, c |-> 0, t |-> 0]

\* SQLite lets one connection write at a time: a run that has written inside
\* its transaction.atomic() block holds the database's write lock until the
\* block commits or rolls back.
WriteLocked == \E r \in Runs : run[r].pc \in {"audit", "notify"}

\* Notification rows are counted by (recipient, title, ref), ref being the
\* transaction the message is about (0: none).
NotifKey(recipient, title, ref) ==
    [recipient |-> recipient, title |-> title, ref |-> ref]

NotifCount(k) == IF k \in DOMAIN notifs THEN notifs[k] ELSE 0

\* Mutant of WithNotification: no row is written
WithNotification_None(k) == notifs

\* Notification.objects.create(recipient, title, ...)
WithNotification(k) ==
    [x \in DOMAIN notifs \cup {k} |-> IF x = k THEN NotifCount(k) + 1
                                      ELSE notifs[x]]

\* The clock moves forward.
Tick ==
    /\ \E d \in Dates : d > today /\ today' = d
    /\ last' = [op |-> "tick", http |-> 0, c |-> 0, t |-> 0]
    /\ UNCHANGED <<accounts, contribs, contribSeq, configs, gens, notifs,
                   txns, run>>

\* ------------------------------------------------------------------------
\* Requests that save a contribution (finance/views.py)
\* ------------------------------------------------------------------------

\* ModelViewSet.update with ContributionSerializer: due_date and paid_date
\* are writable, status and penalty are read-only; instance.save() follows.
\* An exception in save() leaves the row as it was and is answered 500.
UpdateContribution(c, due, paid) ==
    /\ ~WriteLocked
    /\ c \in DOMAIN contribs
    /\ LET row == [contribs[c] EXCEPT !.due_date = due, !.paid_date = paid]
       IN  IF SuggestionRaises(row)
           THEN /\ last' = [op |-> "update", http |-> 500, c |-> c, t |-> 0]
                /\ UNCHANGED contribs
           ELSE /\ contribs' = [contribs EXCEPT ![c] =
                                   EvaluatedRow(row, today)]
                /\ last' = [op |-> "update", http |-> 200, c |-> c, t |-> 0]
    /\ UNCHANGED <<accounts, today, contribSeq, configs, gens, notifs, txns, run>>

\* Amounts an admin or treasurer may post to the penalty endpoint; 0 stands
\* for a request without an amount.
PenaltyAmounts == {0, FIXED_MONTHLY_PENALTY \div 2, 2 * FIXED_MONTHLY_PENALTY}

\* PenaltyViewSet.perform_create for a penalty linked to contribution c,
\* posted by an admin or by the group's treasurer: the part that writes the
\* contribution (the Penalty row itself and its "Penalty Applied" notice
\* are not part of this model's state).
CreatePenalty(c, posted) ==
    /\ ~WriteLocked
    /\ c \in DOMAIN contribs
    /\ LET amount == IF posted = 0
                     THEN calculate_suggested_penalty(contribs[c], today)
                     ELSE posted
       IN  IF amount = 0
           THEN /\ last' = [op |-> "penalty", http |-> 400, c |-> c, t |-> 0]
                /\ UNCHANGED contribs
           ELSE /\ contribs' = [contribs EXCEPT ![c] =
                      EvaluatedRow([contribs[c] EXCEPT !.penalty = amount],
                                   today)]
                /\ last' = [op |-> "penalty", http |-> 201, c |-> c, t |-> 0]
    /\ UNCHANGED <<accounts, today, contribSeq, configs, gens, notifs, txns, run>>

\* What contribution.save(**kwargs) leaves in the table for row c: the
\* evaluated row, or the table as it was when Model.save() raises.
Persisted(c, row, kwargs) ==
    IF SaveRaises(kwargs) THEN contribs
    ELSE [contribs EXCEPT ![c] = EvaluatedRow(row, today)]

\* Mutant of Approve: the status of the contribution is not looked at
Approve_AnyStatus(c) ==
    /\ ~WriteLocked
    /\ c \in DOMAIN contribs
    /\ LET paid_date == IF contribs[c].reported_paid_date # NoDate
                        THEN contribs[c].reported_paid_date ELSE today
           row == [contribs[c] EXCEPT
                     !.due_date = IF contribs[c].is_manual_entry
                                  THEN paid_date ELSE @,
                     !.status = "PAID",
                     !.paid_date = paid_date]
           kwargs == {"skip_status_evaluation"}
       IN  /\ contribs' = Persisted(c, row, kwargs)
           /\ last' = [op |-> "approve",
                       http |-> IF SaveRaises(kwargs) THEN 500 ELSE 200,
                       c |-> c, t |-> 0]
    /\ UNCHANGED <<accounts, today, contribSeq, configs, gens, notifs, txns, run>>

\* ContributionViewSet.approve by an admin or the group's treasurer.  The
\* handler ends in contribution.save(skip_status_evaluation=True).
Approve(c) ==
    /\ ~WriteLocked
    /\ c \in DOMAIN contribs
    /\ IF contribs[c].status # "PENDING"
       THEN /\ last' = [op |-> "approve", http |-> 400, c |-> c, t |-> 0]
            /\ UNCHANGED contribs
       ELSE LET paid_date == IF contribs[c].reported_paid_date # NoDate
                             THEN contribs[c].reported_paid_date ELSE today
                row == [contribs[c] EXCEPT
                          !.due_date = IF contribs[c].is_manual_entry
                                       THEN paid_date ELSE @,
                          !.status = "PAID",
                          !.paid_date = paid_date]
                kwargs == {"skip_status_evaluation"}
            IN  /\ contribs' = Persisted(c, row, kwargs)
                /\ last' = [op |-> "approve",
                            http |-> IF SaveRaises(kwargs) THEN 500 ELSE 200,
                            c |-> c, t |-> 0]
    /\ UNCHANGED <<accounts, today, contribSeq, configs, gens, notifs, txns, run>>

\* ContributionViewSet.reject by an admin or the group's treasurer.
Reject(c) ==
    /\ ~WriteLocked
    /\ c \in DOMAIN contribs
    /\ IF contribs[c].status # "PENDING"
       THEN /\ last' = [op |-> "reject", http |-> 400, c |-> c, t |-> 0]
            /\ UNCHANGED contribs
       ELSE LET row == [contribs[c] EXCEPT !.status = "REJECTED",
                                           !.paid_date = NoDate]
                kwargs == {"skip_status_evaluation"}
            IN  /\ contribs' = Persisted(c, row, kwargs)
                /\ last' = [op |-> "reject",
                            http |-> IF SaveRaises(kwargs) THEN 500 ELSE 200,
                            c |-> c, t |-> 0]
    /\ UNCHANGED <<accounts, today, contribSeq, configs, gens, notifs, txns, run>>

\* ------------------------------------------------------------------------
\* Payment reconciliation (payments/views.py, payments/signals.py)
\* ------------------------------------------------------------------------
NoContribution == 0
NoReceipt == "none"
SuccessCode == 0
CancelledCode == 1032

\* ResultDesc the provider sends with a result code
ResultDesc(code) ==
    IF code = SuccessCode
    THEN "The service request is processed successfully."
    ELSE "Request cancelled by user"

\* The number of MpesaTransaction rows that carry checkout_request_id k
RowsWith(k) == IF k \in DOMAIN txns THEN txns[k].copies ELSE 0

\* Mutant of UniqueCheckoutId: the column is not unique
UniqueCheckoutId_Absent(checkout) == TRUE

\* checkout_request_id = CharField(unique=True): an insert of a row with
\* this id is accepted
UniqueCheckoutId(checkout) == RowsWith(checkout) = 0

\* InitiateMpesaPaymentView.post by the authenticated user u, for an STK
\* push the provider answered.  checkout = 0: the answer carries no
\* CheckoutRequestID.  contribution_id may name no stored contribution.
\* txns[k] is the row inserted last with id k, copies the number of rows
\* with that id.
InitiatePayment(u, contribution_id, checkout) ==
    /\ ~WriteLocked
    /\ IF checkout = 0
       THEN /\ last' = [op |-> "pay", http |-> 400, c |-> 0, t |-> 0]
            /\ UNCHANGED txns
       ELSE IF ~UniqueCheckoutId(checkout)
       THEN \* IntegrityError
            /\ last' = [op |-> "pay", http |-> 500, c |-> 0, t |-> checkout]
            /\ UNCHANGED txns
       ELSE /\ txns' = [k \in DOMAIN txns \cup {checkout} |->
                  IF k = checkout
                  THEN [copies |-> RowsWith(checkout) + 1,
                        user |-> u,
                        contribution |->
                            IF contribution_id \in DOMAIN contribs
                            THEN contribution_id ELSE NoContribution,
                        status |-> "PENDING",
                        mpesa_receipt_number |-> NoReceipt,
                        result_code |-> -1,
                        result_desc |-> "",
                        raw_callback |-> FALSE]
                  ELSE txns[k]]
            /\ last' = [op |-> "pay", http |-> 200, c |-> 0, t |-> checkout]
    /\ UNCHANGED <<accounts, today, contribs, contribSeq, configs, gens, notifs, run>>

\* Mutant of PaymentCompleted: the handler takes every terminal status for
\* a completed payment
PaymentCompleted_AnyTerminal(old, new) ==
    new.status \in {"SUCCESS", "FAILED"}

\* handle_mpesa_payment_completion runs its body on every post_save of a
\* transaction whose status is SUCCESS (old: the row before the save).
PaymentCompleted(old, new) ==
    new.status = "SUCCESS"

\* Mutant of SignalContributionRow: the handler clears the penalty of the
\* contribution it marks paid
SignalContributionRow_ResetsPenalty(cn) ==
    IF cn.status # "PAID"
    THEN EvaluatedRow([cn EXCEPT !.status = "PAID", !.paid_date = today,
                                 !.penalty = 0], today)
    ELSE cn

\* handle_mpesa_payment_completion, step 1: the row the handler saves for
\* the linked contribution cn
SignalContributionRow(cn) ==
    IF cn.status # "PAID"
    THEN EvaluatedRow([cn EXCEPT !.status = "PAID", !.paid_date = today],
                      today)
    ELSE cn

\* The "Payment Successful" notice of the transaction with checkout id k
PaymentNotif(k) ==
    NotifKey(IF k \in DOMAIN txns THEN txns[k].user ELSE 0,
             "Payment Successful", k)

\* The callback payloads: with or without Body.stkCallback, with or without
\* a CheckoutRequestID (0), for a stored or an unknown id, a success or a
\* failure code, and metadata items with, without or with a malformed
\* MpesaReceiptNumber item.  A payload without Body.stkCallback has none of
\* the fields inside it.
Payloads(K) ==
    {p \in [stk : BOOLEAN, checkout : {0} \cup K \cup {MaxTxns + 1},
            code : {SuccessCode, CancelledCode},
            receipt : {"absent", "present", "malformed"}] :
        p.stk \/ (p.checkout = 0 /\ p.code = SuccessCode
                  /\ p.receipt = "absent")}

\* Mutants of the answers: the request is acknowledged as accepted
TransactionNotFound_Accepted == [http |-> 200, rc |-> 0]
InvalidData_Accepted == [http |-> 200, rc |-> 0]

\* The JsonResponses of mpesa_callback: HTTP status and the ResultCode of
\* the body
InvalidData == [http |-> 400, rc |-> 1]
TransactionNotFound == [http |-> 404, rc |-> 1]
Accepted == [http |-> 200, rc |-> 0]
InternalError == [http |-> 500, rc |-> 1]

\* Mutant of AfterKeyError: the transaction is saved before the metadata
\* items are read
AfterKeyError_SavedFirst(old, new) ==
    [new EXCEPT !.mpesa_receipt_number = old.mpesa_receipt_number]

\* The stored transaction after item["Name"] raises KeyError: the fields
\* were assigned on the instance only, transaction.save() is not reached
AfterKeyError(old, new) == old

\* The answer of mpesa_callback, as the last request handled
CallbackAnswer(resp, c, t) ==
    [op |-> "callback", http |-> resp.http, rc |-> resp.rc, c |-> c, t |-> t]

\* mpesa_callback, together with the post_save handler its
\* transaction.save() triggers
Callback(p) ==
    /\ ~WriteLocked
    /\ NotifCount(PaymentNotif(p.checkout)) < MaxNotifs
    /\ IF ~p.stk \/ p.checkout = 0
       THEN /\ last' = CallbackAnswer(InvalidData, 0, 0)
            /\ UNCHANGED <<txns, contribs, notifs>>
       ELSE IF p.checkout \notin DOMAIN txns
       THEN /\ last' = CallbackAnswer(TransactionNotFound, 0, p.checkout)
            /\ UNCHANGED <<txns, contribs, notifs>>
       ELSE LET old == txns[p.checkout]
                new == [old EXCEPT
                          !.raw_callback = TRUE,
                          !.result_code = p.code,
                          !.result_desc = ResultDesc(p.code),
                          !.status = IF p.code = SuccessCode
                                     THEN "SUCCESS" ELSE "FAILED",
                          !.mpesa_receipt_number =
                              IF p.code = SuccessCode /\ p.receipt = "present"
                              THEN "UBCEJ6G79B" ELSE @]
                fired == PaymentCompleted(old, new)
                cid == new.contribution
            IN  IF p.code = SuccessCode /\ p.receipt = "malformed"
                THEN \* item["Name"] raises KeyError before transaction.save()
                     /\ txns' = [txns EXCEPT ![p.checkout] =
                                    AfterKeyError(old, new)]
                     /\ last' = CallbackAnswer(InternalError, 0, p.checkout)
                     /\ UNCHANGED <<contribs, notifs>>
                ELSE /\ txns' = [txns EXCEPT ![p.checkout] = new]
                     /\ contribs' =
                          IF fired /\ cid # NoContribution
                          THEN [contribs EXCEPT ![cid] =
                                    SignalContributionRow(contribs[cid])]
                          ELSE contribs
                     /\ notifs' =
                          IF fired
                          THEN WithNotification(PaymentNotif(p.checkout))
                          ELSE notifs
                     /\ last' = CallbackAnswer(Accepted,
                                               IF fired THEN cid ELSE 0,
                                               p.checkout)
    /\ UNCHANGED <<accounts, today, contribSeq, configs, gens, run>>

\* What query_stk_status gives the poll: the ResultCode of the provider's
\* answer as text, "absent" when the answer carries none (the request is
\* still being processed), "raises" when the HTTP request or the decoding of
\* its answer fails
QueryResults == {"0", "1032", "1037", "1", "absent", "raises"}

\* query_res.get("ResultDesc")
QueryResultDesc(res) ==
    IF res = "0" THEN "The service request is processed successfully."
    ELSE IF res = "1032" THEN "Request cancelled by user"
    ELSE "DS timeout user cannot be reached"

PollAnswer(http, k, queried, res, st) ==
    [op |-> "poll", http |-> http, c |-> 0, t |-> k, queried |-> queried,
     res |-> res, status |-> st]

\* Mutant of PollStatus: the provider is asked whatever the status is
PollStatus_AnyStatus(k, res) ==
    /\ ~WriteLocked
    /\ NotifCount(PaymentNotif(k)) < MaxNotifs
    /\ IF k \notin DOMAIN txns
       THEN /\ last' = PollAnswer(404, k, FALSE, "none", "none")
            /\ UNCHANGED <<txns, contribs, notifs>>
       ELSE IF res = "raises"
       THEN /\ last' = PollAnswer(500, k, TRUE, res, "none")
            /\ UNCHANGED <<txns, contribs, notifs>>
       ELSE LET old == txns[k]
                new == IF res = "0"
                       THEN [old EXCEPT !.status = "SUCCESS",
                                        !.result_desc = QueryResultDesc(res)]
                       ELSE IF res \in {"1032", "1037"}
                       THEN [old EXCEPT !.status = "FAILED",
                                        !.result_desc = QueryResultDesc(res)]
                       ELSE old
                saved == res \in {"0", "1032", "1037"}
                fired == saved /\ PaymentCompleted(old, new)
                cid == new.contribution
            IN  /\ txns' = [txns EXCEPT ![k] = new]
                /\ contribs' =
                     IF fired /\ cid # NoContribution
                     THEN [contribs EXCEPT ![cid] =
                               SignalContributionRow(contribs[cid])]
                     ELSE contribs
                /\ notifs' = IF fired THEN WithNotification(PaymentNotif(k))
                             ELSE notifs
                /\ last' = PollAnswer(200, k, TRUE, res, new.status)
    /\ UNCHANGED <<accounts, today, contribSeq, configs, gens, run>>

\* MpesaTransactionStatusView.get for checkout id k, with the post_save
\* handler its transaction.save() triggers; res is what query_stk_status
\* gives when it is called
PollStatus(k, res) ==
    /\ ~WriteLocked
    /\ NotifCount(PaymentNotif(k)) < MaxNotifs
    /\ IF k \notin DOMAIN txns
       THEN /\ last' = PollAnswer(404, k, FALSE, "none", "none")
            /\ UNCHANGED <<txns, contribs, notifs>>
       ELSE IF txns[k].status # "PENDING"
       THEN /\ last' = PollAnswer(200, k, FALSE, "none", txns[k].status)
            /\ UNCHANGED <<txns, contribs, notifs>>
       ELSE IF res = "raises"
       THEN /\ last' = PollAnswer(500, k, TRUE, res, "none")
            /\ UNCHANGED <<txns, contribs, notifs>>
       ELSE LET old == txns[k]
                new == IF res = "0"
                       THEN [old EXCEPT !.status = "SUCCESS",
                                        !.result_desc = QueryResultDesc(res)]
                       ELSE IF res \in {"1032", "1037"}
                       THEN [old EXCEPT !.status = "FAILED",
                                        !.result_desc = QueryResultDesc(res)]
                       ELSE old
                saved == res \in {"0", "1032", "1037"}
                fired == saved /\ PaymentCompleted(old, new)
                cid == new.contribution
            IN  /\ txns' = [txns EXCEPT ![k] = new]
                /\ contribs' =
                     IF fired /\ cid # NoContribution
                     THEN [contribs EXCEPT ![cid] =
                               SignalContributionRow(contribs[cid])]
                     ELSE contribs
                /\ notifs' = IF fired THEN WithNotification(PaymentNotif(k))
                             ELSE notifs
                /\ last' = PollAnswer(200, k, TRUE, res, new.status)
    /\ UNCHANGED <<accounts, today, contribSeq, configs, gens, run>>


\* ------------------------------------------------------------------------
\* Monthly generator (generate_monthly_contributions.Command.handle)
\* ------------------------------------------------------------------------

\* A --month argument is the sequence of fields month_str.split("-") gives:
\* a field of digits is its number, or BeyondCInt when the number is
\* greater than 2^31 - 1; any other text is NotNumeric, no text at all is
\* EmptyField.  NoMonthArg: the option is not given.
NoMonthArg == <<>>
NotNumeric == -1
EmptyField == -2
BeyondCInt == -3

\* --month arguments: none, the empty text, a month of the window, a month
\* number out of range, one field, three fields, a field that is not a
\* number, a year beyond a C int.
MonthArgs ==
    {NoMonthArg, <<EmptyField>>}
        \cup {<<WinYear(i), WinMonth(i)>> : i \in MonthIdx}
        \cup {<<WindowStart.year, 13>>, <<WindowStart.year>>,
              <<WindowStart.year, WindowStart.month, 1>>,
              <<NotNumeric, WindowStart.month>>,
              <<BeyondCInt, WindowStart.month>>}

\* if month_str: the option is given and its text is not empty
MonthGiven(arg) == arg # NoMonthArg /\ arg # <<EmptyField>>

\* year, month = map(int, ...) and date(year, month, 1) pass the two
\* numbers to the date constructor
Unpacks(arg) ==
    Len(arg) = 2 /\ \A i \in 1 .. 2 : arg[i] \notin {NotNumeric, EmptyField}

\* date(year, month, 1) raises OverflowError: a number does not fit a C int
MonthOverflows(arg) ==
    MonthGiven(arg) /\ Unpacks(arg) /\ \E i \in 1 .. 2 : arg[i] = BeyondCInt

\* The try block raises ValueError: the unpacking, int() or date() does
InvalidMonth(arg) ==
    /\ MonthGiven(arg)
    /\ ~MonthOverflows(arg)
    /\ \/ ~Unpacks(arg)
       \/ ~(arg[1] \in 1 .. 9999 /\ arg[2] \in 1 .. 12)

\* target_date
TargetOf(arg) ==
    IF ~MonthGiven(arg) THEN MkDate(YearOf(today), MonthOf(today), 1)
    ELSE MkDate(arg[1], arg[2], 1)

\* due_date: the last calendar day of the target month
DueDateOf(target) ==
    MkDate(YearOf(target), MonthOf(target),
           DaysInMonth(YearOf(target), MonthOf(target)))

\* AutoSavingConfig.objects.filter(is_active=True), in the order the loop
\* visits it (Meta.ordering = ["-created_at"]: newest first)
RECURSIVE Descending(_)
Descending(S) ==
    IF S = {} THEN <<>>
    ELSE LET m == CHOOSE x \in S : \A y \in S : y <= x
         IN  <<m>> \o Descending(S \ {m})

\* Mutant of ActiveConfigs: the queryset is not filtered
ActiveConfigs_All == DOMAIN configs

ActiveConfigs == {c \in DOMAIN configs : configs[c].is_active}

\* Mutant of AlreadyGenerated: the audit table is not consulted
AlreadyGenerated_Never(c, target) == FALSE

\* MonthlySavingGeneration.objects.filter(config, generated_for_month).exists()
AlreadyGenerated(c, target) ==
    \E g \in gens : g.config = c /\ g.generated_for_month = target

\* Mutant of UniqueMonthlyGeneration: the table has no unique constraint
UniqueMonthlyGeneration_Absent(c, target) == TRUE

\* UniqueConstraint(fields=["config", "generated_for_month"]): an insert of
\* (c, target) is accepted
UniqueMonthlyGeneration(c, target) ==
    ~\E g \in gens : g.config = c /\ g.generated_for_month = target

\* handle() up to the loop: parse --month, compute the dates, fetch the
\* active configs.  ValueError is caught and reported ("invalid"), any other
\* exception leaves handle().
StartRun(r, arg, dry) ==
    /\ run[r].pc = "idle"
    /\ IF InvalidMonth(arg)
       THEN run' = [run EXCEPT ![r] = [IdleRun EXCEPT !.pc = "invalid"]]
       ELSE IF MonthOverflows(arg)
       THEN run' = [run EXCEPT ![r] = [IdleRun EXCEPT !.pc = "OverflowError"]]
       ELSE IF ActiveConfigs = {}
       THEN run' = [run EXCEPT ![r] = [IdleRun EXCEPT !.pc = "empty"]]
       ELSE run' = [run EXCEPT ![r] =
                [IdleRun EXCEPT
                    !.pc = "check",
                    !.target = TargetOf(arg),
                    !.due = DueDateOf(TargetOf(arg)),
                    !.dry = dry,
                    !.todo = Descending(ActiveConfigs),
                    !.snapshot = {c \in DOMAIN configs :
                                     configs[c].is_active},
                    !.pre = {c \in DOMAIN configs :
                                /\ configs[c].is_active
                                /\ \E g \in gens :
                                    /\ g.config = c
                                    /\ g.generated_for_month = TargetOf(arg)}]]
    /\ last' = [op |-> "generate", http |-> 0, c |-> 0, t |-> 0]
    /\ UNCHANGED <<accounts, today, contribs, contribSeq, configs, gens, notifs, txns>>

\* Mutant of CheckConfig: the dry-run flag is not looked at
CheckConfig_IgnoresDryRun(r) ==
    /\ run[r].pc = "check"
    /\ IF run[r].todo = <<>>
       THEN run' = [run EXCEPT ![r].pc = "done"]
       ELSE LET c == Head(run[r].todo)
            IN  IF AlreadyGenerated(c, run[r].target)
                THEN run' = [run EXCEPT ![r].todo = Tail(@),
                                        ![r].skipped = @ + 1]
                ELSE run' = [run EXCEPT ![r].todo = Tail(@),
                                        ![r].cur = c,
                                        ![r].pc = "contribution"]
    /\ last' = [op |-> "generate", http |-> 0, c |-> 0, t |-> 0]
    /\ UNCHANGED <<accounts, today, contribs, contribSeq, configs, gens, notifs, txns>>

\* One pass of the loop head: the next config is skipped, counted as a
\* dry-run creation, or handed to the creation step; after the last config
\* the summary is printed.
CheckConfig(r) ==
    /\ run[r].pc = "check"
    /\ IF run[r].todo = <<>>
       THEN run' = [run EXCEPT ![r].pc = "done"]
       ELSE LET c == Head(run[r].todo)
            IN  IF AlreadyGenerated(c, run[r].target)
                THEN run' = [run EXCEPT ![r].todo = Tail(@),
                                        ![r].skipped = @ + 1]
                ELSE IF run[r].dry
                THEN run' = [run EXCEPT ![r].todo = Tail(@),
                                        ![r].created = @ + 1]
                ELSE run' = [run EXCEPT ![r].todo = Tail(@),
                                        ![r].cur = c,
                                        ![r].pc = "contribution"]
    /\ last' = [op |-> "generate", http |-> 0, c |-> 0, t |-> 0]
    /\ UNCHANGED <<accounts, today, contribs, contribSeq, configs, gens, notifs, txns>>

\* Contribution.objects.create(..., status="PENDING") inside
\* transaction.atomic(): the row goes through Contribution.save() and stays
\* uncommitted.  The insert takes the database's write lock.
InsertContribution(r) ==
    /\ run[r].pc = "contribution"
    /\ ~WriteLocked
    /\ contribSeq < MaxContribs
    /\ run' = [run EXCEPT
                 ![r].pc = "audit",
                 ![r].row = EvaluatedRow(
                     [user |-> configs[run[r].cur].user,
                      amount |-> configs[run[r].cur].amount,
                      due_date |-> run[r].due,
                      paid_date |-> NoDate,
                      status |-> "PENDING",
                      penalty |-> 0,
                      is_manual_entry |-> FALSE,
                      reported_paid_date |-> NoDate,
                      generated |-> TRUE], today)]
    /\ last' = [op |-> "generate", http |-> 0, c |-> 0, t |-> 0]
    /\ UNCHANGED <<accounts, today, contribs, contribSeq, configs, gens, notifs, txns>>

\* The write lock is held by another run for longer than the connection's
\* timeout: OperationalError ("database is locked") ends the command.
LockTimeout(r) ==
    /\ run[r].pc = "contribution"
    /\ WriteLocked
    /\ run' = [run EXCEPT ![r].pc = "OperationalError"]
    /\ last' = [op |-> "generate", http |-> 0, c |-> 0, t |-> 0]
    /\ UNCHANGED <<accounts, today, contribs, contribSeq, configs, gens, notifs, txns>>

\* Mutant of AfterFailure: the statements are not in a transaction, each
\* one is committed as it is executed
AfterFailure_Autocommit(r) ==
    [rows |-> [k \in DOMAIN contribs \cup {contribSeq + 1} |->
                 IF k = contribSeq + 1 THEN run[r].row ELSE contribs[k]],
     seq |-> contribSeq + 1]

\* The Contribution table and its id sequence after run r fails inside its
\* atomic block: the uncommitted row is rolled back
AfterFailure(r) == [rows |-> contribs, seq |-> contribSeq]

\* MonthlySavingGeneration.objects.create(...): the unique constraint is
\* checked against the committed rows; IntegrityError leaves the atomic
\* block, which rolls back, and ends the command.
InsertAudit(r) ==
    /\ run[r].pc = "audit"
    /\ IF UniqueMonthlyGeneration(run[r].cur, run[r].target)
       THEN /\ run' = [run EXCEPT ![r].pc = "notify"]
            /\ UNCHANGED <<contribs, contribSeq>>
       ELSE /\ run' = [run EXCEPT ![r].pc = "IntegrityError",
                                  ![r].row = NoRow]
            /\ contribs' = AfterFailure(r).rows
            /\ contribSeq' = AfterFailure(r).seq
    /\ last' = [op |-> "generate", http |-> 0, c |-> 0, t |-> 0]
    /\ UNCHANGED <<accounts, today, configs, gens, notifs, txns>>

\* The process dies, or a statement raises, inside the atomic block.
Crash(r) ==
    /\ run[r].pc \in {"audit", "notify"}
    /\ contribs' = AfterFailure(r).rows
    /\ contribSeq' = AfterFailure(r).seq
    /\ run' = [run EXCEPT ![r].pc = "killed", ![r].row = NoRow]
    /\ last' = [op |-> "generate", http |-> 0, c |-> 0, t |-> 0]
    /\ UNCHANGED <<accounts, today, configs, gens, notifs, txns>>

\* Notification.objects.create(...), created_count += 1 and the end of the
\* atomic block: the three rows are committed together.
InsertNotification(r) ==
    /\ run[r].pc = "notify"
    /\ contribSeq' = contribSeq + 1
    /\ contribs' = [k \in DOMAIN contribs \cup {contribSeq + 1} |->
                      IF k = contribSeq + 1 THEN run[r].row ELSE contribs[k]]
    /\ gens' = gens \cup {[config |-> run[r].cur,
                           contribution |-> contribSeq + 1,
                           generated_for_month |-> run[r].target]}
    /\ notifs' = WithNotification(
          NotifKey(configs[run[r].cur].user, "Monthly Auto-Save Scheduled", 0))
    /\ run' = [run EXCEPT ![r].pc = "check", ![r].row = NoRow,
                          ![r].created = @ + 1]
    /\ last' = [op |-> "generate", http |-> 0, c |-> 0, t |-> 0]
    /\ UNCHANGED <<accounts, today, configs, txns>>

\* ------------------------------------------------------------------------
\* Specifications
\* ------------------------------------------------------------------------

\* A database in which only the first config is active: the life of one
\* generated contribution (Contribution.save touches no other row).
InitOne ==
    /\ today = FirstDate
    /\ contribs = <<>>
    /\ contribSeq = 0
    /\ configs = [c \in Configs |->
                    [user |-> c, group |-> 1,
                     amount |-> MIN_MONTHLY_SAVING * c,
                     is_active |-> (c = 1)]]
    /\ gens = {}
    /\ notifs = <<>>
    /\ txns = <<>>
    /\ run = [r \in Runs |-> IdleRun]
    /\ users = Members
    /\ audits = <<>>
    /\ penalties = <<>>
    /\ last = [op |-> "init", http |-> 0, c |-> 0, t |-> 0]

Engine ==
    \/ \E c \in 1 .. MaxContribs, due \in Dates, paid \in Dates \cup {NoDate} :
          UpdateContribution(c, due, paid)
    \/ \E c \in 1 .. MaxContribs, a \in PenaltyAmounts : CreatePenalty(c, a)
    \/ \E c \in 1 .. MaxContribs : Approve(c)
    \/ \E c \in 1 .. MaxContribs : Reject(c)

Payments ==
    \/ \E u \in Users, c \in 0 .. MaxContribs, k \in 0 .. MaxTxns :
          InitiatePayment(u, c, k)
    \/ \E p \in Payloads(CheckoutIds) : Callback(p)

\* The steps of the generator runs in R
Generator(R) ==
    \/ \E r \in R, arg \in MonthArgs, dry \in BOOLEAN : StartRun(r, arg, dry)
    \/ \E r \in R : CheckConfig(r)
    \/ \E r \in R : InsertContribution(r)
    \/ \E r \in R : InsertAudit(r)
    \/ \E r \in R : InsertNotification(r)

\* No run of the command is in progress.
Sequential ==
    \A r \in Runs : run[r].pc \notin {"check", "contribution", "audit", "notify"}

\* One run of the generator, then the requests on the contribution it made
Next == Tick \/ Engine \/ Generator({1})
Spec == InitOne /\ [][Next]_vars

\* The same with the payment requests of one user on one checkout id; the
\* update requests set or clear paid_date only, the callbacks are well
\* formed
NextAll ==
    \/ Tick
    \/ \E c \in DOMAIN contribs, paid \in {today, NoDate} :
          UpdateContribution(c, contribs[c].due_date, paid)
    \/ \E c \in 1 .. MaxContribs, a \in PenaltyAmounts : CreatePenalty(c, a)
    \/ \E c \in 1 .. MaxContribs : Approve(c)
    \/ \E c \in 1 .. MaxContribs : Reject(c)
    \/ \E c \in 0 .. MaxContribs, k \in {0, 1} : InitiatePayment(1, c, k)
    \/ \E p \in Payloads({1}) :
          p.stk /\ p.receipt = "present" /\ Callback(p)
    \/ Generator({1})
SpecAll == InitOne /\ [][NextAll]_vars

\* Payments on a generated contribution
NextPay == Tick \/ Payments \/ Generator({1})
SpecPay == InitOne /\ [][NextPay]_vars

\* Runs of the command one after the other, any of which may fail
NextSeq ==
    \/ Tick
    \/ Sequential /\ \E r \in Runs, arg \in MonthArgs, dry \in BOOLEAN :
                        StartRun(r, arg, dry)
    \/ \E r \in Runs : CheckConfig(r)
    \/ \E r \in Runs : InsertContribution(r)
    \/ \E r \in Runs : InsertAudit(r)
    \/ \E r \in Runs : InsertNotification(r)
    \/ \E r \in Runs : Crash(r)
SpecSeq == Init /\ [][NextSeq]_vars

\* Concurrent runs of the command
NextGen ==
    \/ Generator(Runs)
    \/ \E r \in Runs : Crash(r)
    \/ \E r \in Runs : LockTimeout(r)
SpecGen == Init /\ [][NextGen]_vars

\* ------------------------------------------------------------------------
\* Properties
\* ------------------------------------------------------------------------

\* The step is a callback with ResultCode 0 that mpesa_callback accepted for
\* the stored transaction k.
SuccessCallbackStep(k) ==
    /\ last'.op = "callback"
    /\ last'.http = 200
    /\ last'.t = k
    /\ k \in DOMAIN txns
    /\ txns'[k].status = "SUCCESS"

\* C1: a success callback for a transaction linked to a contribution that
\* is not PAID leaves the contribution PAID with paid_date = the processing
\* date, whatever its due_date.
C1_CallbackMarksPaid ==
    [][\A k \in CheckoutIds :
          (/\ SuccessCallbackStep(k)
           /\ txns[k].contribution # NoContribution
           /\ contribs[txns[k].contribution].status # "PAID")
          => (/\ contribs'[txns[k].contribution].status = "PAID"
              /\ contribs'[txns[k].contribution].paid_date = today)]_vars

\* C2: once a transaction is SUCCESS, a repeated success callback creates no
\* further notification and writes the linked contribution no more.
C2_RepeatedCallbackNoEffect ==
    [][\A k \in CheckoutIds :
          (/\ SuccessCallbackStep(k)
           /\ txns[k].status = "SUCCESS")
          => (notifs' = notifs /\ contribs' = contribs)]_vars

\* The audit rows and the generated contributions of config c for the
\* month that starts on target
GenerationsFor(c, target) ==
    {g \in gens : g.config = c /\ g.generated_for_month = target}

GeneratedFor(c, target) ==
    {k \in DOMAIN contribs :
        /\ contribs[k].generated
        /\ contribs[k].user = configs[c].user
        /\ contribs[k].due_date = DueDateOf(target)}

Targets == {TargetDate(i) : i \in MonthIdx}

\* C3: with the runs of the command taken one after the other, a run takes
\* to the creation step only configs that had no audit row for the month
\* when it started; a finished run has skipped exactly the configs that had
\* one and counted the others as created; and after a finished real run
\* each of its configs has exactly one audit row and one contribution for
\* the month.
C3_SequentialRunsIdempotent ==
    \A r \in Runs :
        /\ run[r].pc \in {"contribution", "audit", "notify"}
              => run[r].cur \notin run[r].pre
        /\ run[r].pc = "done"
              => /\ run[r].skipped = Cardinality(run[r].pre)
                 /\ run[r].created = Cardinality(run[r].snapshot \ run[r].pre)
                 /\ ~run[r].dry =>
                      \A c \in run[r].snapshot :
                          /\ Cardinality(GenerationsFor(c, run[r].target)) = 1
                          /\ Cardinality(GeneratedFor(c, run[r].target)) = 1

\* A real run has finished that found its month already generated.
C3_Witness ==
    \E r \in Runs :
        /\ run[r].pc = "done"
        /\ ~run[r].dry
        /\ run[r].pre = run[r].snapshot
        /\ run[r].pre # {}
        /\ run[r].skipped = Cardinality(run[r].snapshot)
        /\ run[r].created = 0

\* C4: in every committed state the generated contributions and the audit
\* rows correspond one to one.
C4_AuditOneToOne ==
    /\ \A g \in gens :
          /\ g.contribution \in DOMAIN contribs
          /\ contribs[g.contribution].generated
    /\ \A k \in DOMAIN contribs :
          contribs[k].generated
              => Cardinality({g \in gens : g.contribution = k}) = 1

\* A run has failed inside the creation step while another run's
\* contribution is committed.
C4_Witness ==
    /\ \E r \in Runs : run[r].pc \in {"killed", "IntegrityError"}
    /\ gens # {}

\* C5: whatever the interleaving of the runs, a config has at most one
\* audit row and at most one generated contribution for a month.
C5_AtMostOnePerMonth ==
    \A c \in Configs, target \in Targets :
        /\ Cardinality(GenerationsFor(c, target)) <= 1
        /\ Cardinality(GeneratedFor(c, target)) <= 1

\* Two runs raced for the same config and month: one committed, the other
\* was refused by the unique constraint.
C5_Witness ==
    \E r1, r2 \in Runs :
        /\ run[r1].pc = "IntegrityError"
        /\ run[r2].created > 0
        /\ run[r1].target = run[r2].target
        /\ Cardinality(GeneratedFor(run[r1].cur, run[r1].target)) = 1

\* The step is a request other than the penalty endpoint's.
NoPenaltyWrite == last'.op # "penalty"

\* C6: a stored penalty that is not zero is left as it is by every save of
\* the contribution; the suggested penalty is written when the stored one
\* is zero.
C6_OverrideSticky ==
    [][\A k \in DOMAIN contribs :
          (NoPenaltyWrite /\ k \in DOMAIN contribs')
          => /\ contribs[k].penalty # 0
                   => contribs'[k].penalty = contribs[k].penalty
             /\ (contribs[k].penalty = 0 /\ last'.op = "update" /\ last'.c = k)
                   => contribs'[k].penalty =
                         calculate_suggested_penalty(contribs'[k], today)]_vars

\* An update request has saved a contribution whose stored penalty differs
\* from the one the engine suggests now.
C6_Witness ==
    \E k \in DOMAIN contribs :
        /\ last.op = "update"
        /\ last.c = k
        /\ contribs[k].penalty # 0
        /\ contribs[k].penalty # calculate_suggested_penalty(contribs[k], today)

\* C7: no request but the penalty endpoint's lowers a stored penalty.
C7_PenaltyMonotone ==
    [][\A k \in DOMAIN contribs :
          (NoPenaltyWrite /\ k \in DOMAIN contribs')
          => contribs'[k].penalty >= contribs[k].penalty]_vars

\* A payment callback has marked paid a contribution that carries a
\* penalty.
C7_Witness ==
    \E k \in DOMAIN contribs :
        /\ last.op = "callback"
        /\ last.c = k
        /\ contribs[k].paid_date # NoDate
        /\ contribs[k].penalty > 0

\* The state is the one a date-based save of contribution k has just left.
JustSaved(k) ==
    /\ k \in DOMAIN contribs
    /\ last.c = k
    /\ \/ last.op = "update" /\ last.http = 200
       \/ last.op = "penalty" /\ last.http = 201

\* C8: a contribution saved with paid_date <= due_date is PAID, whatever
\* today is.
C8_PaidOnTime ==
    \A k \in DOMAIN contribs :
        (/\ JustSaved(k)
         /\ contribs[k].paid_date # NoDate
         /\ contribs[k].paid_date <= contribs[k].due_date)
        => contribs[k].status = "PAID"

\* Saved as paid on time on a day after the due date.
C8_Witness ==
    \E k \in DOMAIN contribs :
        /\ JustSaved(k)
        /\ contribs[k].paid_date # NoDate
        /\ contribs[k].paid_date <= contribs[k].due_date
        /\ today > contribs[k].due_date

\* C9: a contribution saved without paid_date is OVERDUE when today is
\* after due_date and PENDING otherwise.
C9_UnpaidStatus ==
    \A k \in DOMAIN contribs :
        (JustSaved(k) /\ contribs[k].paid_date = NoDate)
        => contribs[k].status =
              IF today > contribs[k].due_date THEN "OVERDUE" ELSE "PENDING"

\* Saved unpaid after the due date.
C9_Witness ==
    \E k \in DOMAIN contribs :
        /\ JustSaved(k)
        /\ contribs[k].paid_date = NoDate
        /\ today > contribs[k].due_date
        /\ contribs[k].status = "OVERDUE"

\* C10: a contribution saved with paid_date > due_date is LATE, and every
\* saved status is one of PENDING, PAID, LATE, OVERDUE.
C10_LateAndTotal ==
    \A k \in DOMAIN contribs :
        JustSaved(k)
        => /\ contribs[k].status \in STATUS_CHOICES
           /\ (contribs[k].paid_date # NoDate
               /\ contribs[k].paid_date > contribs[k].due_date)
                 => contribs[k].status = "LATE"

\* Saved as paid after the due date, on a day before the due date.
C10_Witness ==
    \E k \in DOMAIN contribs :
        /\ JustSaved(k)
        /\ contribs[k].paid_date > contribs[k].due_date
        /\ today < contribs[k].due_date
        /\ contribs[k].status = "LATE"

\* ------------------------------------------------------------------------
\* The penalty rule on chosen dates
\* ------------------------------------------------------------------------

\* Due dates, payment dates and days of the clock around two month ends:
\* January 2025 and the December -> January roll-over
PenaltyDates ==
    {MkDate(2025, 1, 20), MkDate(2025, 1, 31), MkDate(2025, 2, 1),
     MkDate(2025, 2, 15), MkDate(2025, 12, 31), MkDate(2026, 1, 1)}

\* One unpaid contribution, stored by Contribution.save() on some day up to
\* today
InitPenalty ==
    /\ today \in PenaltyDates
    /\ contribSeq = 1
    /\ \E due \in PenaltyDates, stored \in PenaltyDates :
          /\ stored <= today
          /\ contribs = [k \in {1} |->
                EvaluatedRow([user |-> 1,
                              amount |-> MIN_MONTHLY_SAVING,
                              due_date |-> due,
                              paid_date |-> NoDate,
                              status |-> "PENDING",
                              penalty |-> 0,
                              is_manual_entry |-> FALSE,
                              reported_paid_date |-> NoDate,
                              generated |-> FALSE], stored)]
    /\ configs = [c \in Configs |->
                    [user |-> c, group |-> 1,
                     amount |-> MIN_MONTHLY_SAVING * c,
                     is_active |-> (c = 1)]]
    /\ gens = {}
    /\ notifs = <<>>
    /\ txns = <<>>
    /\ run = [r \in Runs |-> IdleRun]
    /\ users = Members
    /\ audits = <<>>
    /\ penalties = <<>>
    /\ last = [op |-> "init", http |-> 0, c |-> 0, t |-> 0]

\* The requests that save the contribution, on the day the clock shows; the
\* due date may also be the last day a date can be
NextPenalty ==
    \/ \E due \in PenaltyDates \cup {MkDate(MAXYEAR, 12, 31)},
          paid \in PenaltyDates \cup {NoDate} :
          UpdateContribution(1, due, paid)
    \/ \E a \in PenaltyAmounts : CreatePenalty(1, a)
SpecPenalty == InitPenalty /\ [][NextPenalty]_vars

\* Day now is strictly before the first day of the month that follows the
\* month of due.
InGracePeriod(due, now) ==
    YearOf(now) * 12 + MonthOf(now) <= YearOf(due) * 12 + MonthOf(due)

\* The step is an update request that saves contribution k, whose stored
\* penalty was zero: the save writes the suggested penalty.
SuggestionWritten(k) ==
    /\ last'.op = "update"
    /\ last'.http = 200
    /\ last'.c = k
    /\ contribs[k].penalty = 0

\* C11: for an unpaid contribution the suggested penalty is 0 on every day
\* before the first day of the month after the due date's month, and
\* FIXED_MONTHLY_PENALTY on that day and on every later day.
C11_GracePeriod ==
    [][\A k \in DOMAIN contribs :
          (SuggestionWritten(k) /\ contribs'[k].paid_date = NoDate)
          => contribs'[k].penalty =
                IF InGracePeriod(contribs'[k].due_date, today)
                THEN 0 ELSE FIXED_MONTHLY_PENALTY]_vars

\* Due 2025-01-31, saved unpaid on 2025-02-15: the penalty is 100.00.
C11_Witness ==
    /\ last.op = "update"
    /\ today = MkDate(2025, 2, 15)
    /\ contribs[1].due_date = MkDate(2025, 1, 31)
    /\ contribs[1].paid_date = NoDate
    /\ contribs[1].penalty = FIXED_MONTHLY_PENALTY

\* C12: the suggested penalty of a contribution with paid_date set is 0,
\* whatever the due date, the payment date and today are.
C12_PaidNoPenalty ==
    [][\A k \in DOMAIN contribs :
          (SuggestionWritten(k) /\ contribs'[k].paid_date # NoDate)
          => contribs'[k].penalty = 0]_vars

\* Saved as paid after the grace period ended, on a day after it ended.
C12_Witness ==
    /\ last.op = "update"
    /\ contribs[1].paid_date # NoDate
    /\ ~InGracePeriod(contribs[1].due_date, contribs[1].paid_date)
    /\ ~InGracePeriod(contribs[1].due_date, today)
    /\ contribs[1].penalty = 0

\* The payments of one user on the contribution one run of the command made
\* for the current month, all on one day
NextCallback ==
    \/ StartRun(1, NoMonthArg, FALSE)
    \/ CheckConfig(1)
    \/ InsertContribution(1)
    \/ InsertAudit(1)
    \/ InsertNotification(1)
    \/ \E c \in 0 .. MaxContribs, k \in 0 .. MaxTxns : InitiatePayment(1, c, k)
    \/ \E p \in Payloads(CheckoutIds) : Callback(p)
SpecCallback == InitOne /\ [][NextCallback]_vars

\* ------------------------------------------------------------------------
\* Properties of the payment callback
\* ------------------------------------------------------------------------

\* The step is mpesa_callback handling payload p.
CallbackStep(p) ==
    /\ last'.op = "callback"
    /\ last'.t \in {0, p.checkout}
    /\ Callback(p)

\* The payload names a stored transaction and passes the two field checks.
ForStoredTransaction(p) ==
    p.stk /\ p.checkout \in DOMAIN txns

\* The payload lacks Body.stkCallback or CheckoutRequestID, or it is a
\* success payload with a metadata item that lacks its keys.
MalformedPayload(p) ==
    \/ ~p.stk
    \/ p.checkout = 0
    \/ p.code = SuccessCode /\ p.receipt = "malformed"

\* Nothing stored by the payment flow changes in the step.
NothingStored ==
    /\ txns' = txns
    /\ contribs' = contribs
    /\ notifs' = notifs

\* C14: a callback with a nonzero ResultCode makes the transaction FAILED
\* with the provider's description, leaves the contributions as they are
\* and creates no notification.
C14_FailureLeavesContribution ==
    [][\A p \in Payloads(CheckoutIds) :
          (ForStoredTransaction(p) /\ p.code # SuccessCode /\ CallbackStep(p))
          => /\ txns'[p.checkout].status = "FAILED"
             /\ txns'[p.checkout].result_desc = ResultDesc(p.code)
             /\ contribs' = contribs
             /\ notifs' = notifs]_vars

\* A failure callback was accepted for a transaction linked to an unpaid
\* contribution.
C14_Witness ==
    /\ last.op = "callback"
    /\ last.rc = Accepted.rc
    /\ txns[last.t].status = "FAILED"
    /\ txns[last.t].result_code = CancelledCode
    /\ txns[last.t].contribution # NoContribution
    /\ contribs[txns[last.t].contribution].paid_date = NoDate
    /\ NotifCount(PaymentNotif(last.t)) = 0

\* C15: a callback for a checkout id no transaction has is answered with
\* HTTP 404 and ResultCode 1, which is not the answer of an accepted
\* callback, and changes no transaction, contribution or notification.
C15_UnknownIdNotFound ==
    [][\A p \in Payloads(CheckoutIds) :
          (/\ p.stk /\ p.checkout # 0
           /\ p.checkout \notin DOMAIN txns
           /\ CallbackStep(p))
          => /\ last'.http = 404
             /\ last'.rc = 1
             /\ last'.rc # Accepted.rc
             /\ NothingStored]_vars

\* A callback for an unknown id was answered while a transaction is stored.
C15_Witness ==
    /\ last.op = "callback"
    /\ last.http = 404
    /\ last.t \notin DOMAIN txns
    /\ DOMAIN txns # {}

\* C16: a malformed callback is refused (ResultCode 1, HTTP 400 or 500) and
\* leaves every field of every transaction as it was.
C16_MalformedNoPartialUpdate ==
    [][\A p \in Payloads(CheckoutIds) :
          (MalformedPayload(p) /\ CallbackStep(p))
          => /\ last'.rc = 1
             /\ last'.http # Accepted.http
             /\ NothingStored]_vars

\* A success payload with a malformed metadata item was refused for a
\* stored transaction, which is still as the STK push left it.
C16_Witness ==
    /\ last.op = "callback"
    /\ last.http = InternalError.http
    /\ last.t \in DOMAIN txns
    /\ txns[last.t].status = "PENDING"
    /\ ~txns[last.t].raw_callback

\* C17 as stated: mpesa_callback answers every callback with HTTP 200.
C17_AlwaysHttp200 ==
    last.op = "callback" => last.http = 200

\* C17 amended: mpesa_callback answers every callback with an
\* acknowledgment that carries a ResultCode: HTTP 200 and ResultCode 0 for
\* a callback it stored, ResultCode 1 with HTTP 400 for a payload without
\* stkCallback or CheckoutRequestID, with HTTP 404 for an unknown checkout
\* id and with HTTP 500 for an internal error.
C17_Acknowledged ==
    [][\A p \in Payloads(CheckoutIds) :
          CallbackStep(p)
          => /\ last'.t = (IF p.stk THEN p.checkout ELSE 0)
             /\ <<last'.http, last'.rc>> =
                   IF ~p.stk \/ p.checkout = 0 THEN <<400, 1>>
                   ELSE IF p.checkout \notin DOMAIN txns THEN <<404, 1>>
                   ELSE IF MalformedPayload(p) THEN <<500, 1>>
                   ELSE <<200, 0>>
             /\ last'.rc = 0 => txns'[p.checkout].raw_callback]_vars

\* A payload without its required fields was answered while a transaction
\* is stored.
C17_Witness ==
    /\ last.op = "callback"
    /\ last.http = InvalidData.http
    /\ last.rc = 1
    /\ DOMAIN txns # {}

\* C18: a transaction that is SUCCESS or FAILED keeps its status, whatever
\* callbacks follow.
C18_TerminalStatusKept ==
    [][\A k \in DOMAIN txns :
          txns[k].status \in {"SUCCESS", "FAILED"}
          => txns'[k].status = txns[k].status]_vars

\* ------------------------------------------------------------------------
\* Review of manually reported contributions
\* ------------------------------------------------------------------------

\* ContributionAdmin (admin site), add form: a staff user stores a pending
\* manually reported contribution of user u; the form ends in obj.save().
ContributionAdminAdd(u, due, reported) ==
    /\ ~WriteLocked
    /\ contribSeq < MaxContribs
    /\ contribSeq' = contribSeq + 1
    /\ contribs' = [k \in DOMAIN contribs \cup {contribSeq + 1} |->
          IF k = contribSeq + 1
          THEN EvaluatedRow([user |-> u,
                             amount |-> MIN_MONTHLY_SAVING,
                             due_date |-> due,
                             paid_date |-> NoDate,
                             status |-> "PENDING",
                             penalty |-> 0,
                             is_manual_entry |-> TRUE,
                             reported_paid_date |-> reported,
                             generated |-> FALSE], today)
          ELSE contribs[k]]
    /\ last' = [op |-> "admin", http |-> 200, c |-> contribSeq + 1, t |-> 0]
    /\ UNCHANGED <<accounts, today, configs, gens, notifs, txns, run>>

\* Manually reported contributions and their review
NextReview ==
    \/ Tick
    \/ \E due \in Dates, reported \in {NoDate, today} :
          ContributionAdminAdd(1, due, reported)
    \/ \E c \in 1 .. MaxContribs : Approve(c)
    \/ \E c \in 1 .. MaxContribs : Reject(c)
SpecReview == InitOne /\ [][NextReview]_vars

\* C13: approving a PENDING manually reported contribution leaves it PAID
\* with paid_date = its reported_paid_date, or today when none was
\* reported; the date-based recompute does not run.
C13_ApproveMarksPaid ==
    [][\A k \in DOMAIN contribs :
          (/\ last'.op = "approve"
           /\ last'.c = k
           /\ contribs[k].status = "PENDING"
           /\ contribs[k].is_manual_entry)
          => /\ contribs'[k].status = "PAID"
             /\ contribs'[k].paid_date =
                   IF contribs[k].reported_paid_date # NoDate
                   THEN contribs[k].reported_paid_date ELSE today]_vars

\* ------------------------------------------------------------------------
\* Properties of what the generator stores
\* ------------------------------------------------------------------------

\* The step commits the creation block of run r.
CreationCommitted(r) ==
    run[r].pc = "notify" /\ run'[r].pc = "check"

\* C19: every contribution the command creates is due on the last day of
\* the target month and is stored PENDING with penalty 0, for every target
\* month.
C19_GeneratedPendingNoPenalty ==
    [][\A r \in Runs :
          CreationCommitted(r)
          => /\ contribs'[contribSeq'].due_date = DueDateOf(run[r].target)
             /\ contribs'[contribSeq'].status = "PENDING"
             /\ contribs'[contribSeq'].penalty = 0]_vars

\* The step is a step of the dry run r.
DryRunStep(r) ==
    run'[r] # run[r] /\ run'[r].dry

\* C20: a dry run creates no contribution, no audit row and no
\* notification; a real run for the same month after it finds nothing
\* generated and, once finished, has left one contribution and one audit
\* row for each of its configs.
C20_DryRunCreatesNothing ==
    /\ [][\A r \in Runs :
            DryRunStep(r)
            => /\ contribs' = contribs
               /\ contribSeq' = contribSeq
               /\ gens' = gens
               /\ notifs' = notifs]_vars
    /\ [](\A d, r \in Runs :
            (/\ run[d].pc = "done" /\ run[d].dry
             /\ run[r].pc = "done" /\ ~run[r].dry
             /\ run[r].target = run[d].target
             /\ run[d].created = Cardinality(run[d].snapshot)
             /\ run[r].pre = {})
            => /\ run[r].created = Cardinality(run[r].snapshot)
               /\ \A c \in run[r].snapshot :
                     /\ Cardinality(GenerationsFor(c, run[r].target)) = 1
                     /\ Cardinality(GeneratedFor(c, run[r].target)) = 1)

\* A dry run counted a creation and finished, and a real run for the same
\* month then created the contribution.
C20_Witness ==
    \E d, r \in Runs :
        /\ run[d].pc = "done" /\ run[d].dry /\ run[d].created > 0
        /\ run[r].pc = "done" /\ ~run[r].dry /\ run[r].created > 0
        /\ run[r].target = run[d].target
        /\ Cardinality(GenerationsFor(1, run[r].target)) = 1

\* ------------------------------------------------------------------------
\* Properties of the generator's arguments and of the configs it visits
\* ------------------------------------------------------------------------

\* The months --month is documented to take: YYYY-MM, a year of at most
\* four digits and a month of the calendar
ValidYearMonth(arg) ==
    Len(arg) = 2 /\ arg[1] \in 1 .. 9999 /\ arg[2] \in 1 .. 12

\* C21: a run given a --month argument that is not a valid YYYY-MM month
\* reports the error and ends without raising, and no Contribution,
\* MonthlySavingGeneration or Notification is created or changed.
C21_InvalidMonthReported ==
    [][\A r \in Runs, arg \in MonthArgs, dry \in BOOLEAN :
          (arg # NoMonthArg /\ ~ValidYearMonth(arg) /\ StartRun(r, arg, dry))
              => /\ run'[r].pc = "invalid"
                 /\ UNCHANGED <<contribs, contribSeq, gens, notifs>>]_vars

\* The 'Monthly Auto-Save Scheduled' notifications addressed to user u
Scheduled(u) == NotifCount(NotifKey(u, "Monthly Auto-Save Scheduled", 0))

\* The contributions of user u that the command created
GeneratedContributionsOf(u) ==
    {k \in DOMAIN contribs : contribs[k].generated /\ contribs[k].user = u}

\* Run r adds one to its created count.
CountsCreation(r) == run'[r].created = run[r].created + 1

\* C22 as stated: each user has exactly one 'Monthly Auto-Save Scheduled'
\* notification for each contribution the command created for them, and a
\* run's created count goes up exactly when the run commits a contribution.
C22_CountIsContributionsCreated ==
    /\ [](\A u \in Users :
            Scheduled(u) = Cardinality(GeneratedContributionsOf(u)))
    /\ [][\A r \in Runs :
            /\ run'[r].created # run[r].created => CountsCreation(r)
            /\ CountsCreation(r)
                 <=> CreationCommitted(r) /\ contribSeq' = contribSeq + 1]_vars

\* C22 (amended): each user has exactly one 'Monthly Auto-Save Scheduled'
\* notification for each contribution the command created for them; a run
\* without --dry-run counts a creation exactly when it commits a
\* contribution, and a dry run counts the configs it would create for,
\* writing nothing.
C22_OneNoticePerCreation ==
    /\ [](\A u \in Users :
            Scheduled(u) = Cardinality(GeneratedContributionsOf(u)))
    /\ [][\A r \in Runs :
            /\ run'[r].created # run[r].created => CountsCreation(r)
            /\ ~run[r].dry =>
                 (CountsCreation(r)
                     <=> CreationCommitted(r) /\ contribSeq' = contribSeq + 1)
            /\ run[r].dry /\ CountsCreation(r) =>
                 /\ ~AlreadyGenerated(Head(run[r].todo), run[r].target)
                 /\ UNCHANGED <<contribs, contribSeq, gens, notifs>>]_vars

\* A real run has finished that created a contribution and its notice
\* after skipping nothing, and a dry run has counted a creation.
C22_Witness ==
    \E d, r \in Runs :
        /\ run[r].pc = "done" /\ ~run[r].dry /\ run[r].created > 0
        /\ Scheduled(configs[1].user) = run[r].created
        /\ run[d].dry /\ run[d].created > 0

\* ------------------------------------------------------------------------
\* Auto-saving configs (AutoSavingConfigViewSet, AutoSavingConfigSerializer)
\* ------------------------------------------------------------------------

\* The most AutoSavingConfig rows the requests may create
MaxConfigRows == NumConfigs + 2

\* The groups of the database, and a Membership table in which every user
\* belongs to the first two
Groups == {1, 2, 3}
Membership == Users \X {1, 2}

\* Amounts a request may carry: below the minimum, and the minimum
ConfigAmounts == {MIN_MONTHLY_SAVING - 1, MIN_MONTHLY_SAVING}

\* Mutant of UniqueActiveConfig: the table has no such constraint
UniqueActiveConfig_Absent(rows) == TRUE

\* UniqueConstraint(fields=["user", "group"], condition=Q(is_active=True)):
\* the table rows satisfies it
UniqueActiveConfig(rows) ==
    \A a, b \in DOMAIN rows :
        (/\ a # b
         /\ rows[a].is_active /\ rows[b].is_active
         /\ rows[a].user = rows[b].user)
        => rows[a].group # rows[b].group

\* AutoSavingConfig.objects.filter(user, group, is_active=True).exists()
HasActiveConfig(u, g) ==
    \E c \in DOMAIN configs :
        configs[c].user = u /\ configs[c].group = g /\ configs[c].is_active

\* The answer of the config requests
ConfigAnswer(http, c) == [op |-> "config", http |-> http, c |-> c, t |-> 0]

\* POST by user u: validate_amount, validate (membership, an active config
\* of the user in the group already there), then perform_create's save;
\* the insert is refused by the database when it breaks the constraint.
CreateConfig(u, g, amount, active) ==
    LET row == [user |-> u, group |-> g, amount |-> amount,
                is_active |-> active]
    IN  /\ Len(configs) < MaxConfigRows
        /\ IF \/ amount < MIN_MONTHLY_SAVING
              \/ <<u, g>> \notin Membership
              \/ HasActiveConfig(u, g)
           THEN /\ last' = ConfigAnswer(400, 0)
                /\ UNCHANGED configs
           ELSE IF ~UniqueActiveConfig(Append(configs, row))
           THEN /\ last' = ConfigAnswer(500, 0)
                /\ UNCHANGED configs
           ELSE /\ configs' = Append(configs, row)
                /\ last' = ConfigAnswer(201, Len(configs) + 1)
        /\ UNCHANGED <<accounts, today, contribs, contribSeq, gens, notifs, txns, run>>

\* PUT by user u on config c: get_queryset keeps the user's own configs;
\* validate checks the membership only (self.instance is set); the update
\* is refused by the database when it breaks the constraint.
UpdateConfig(u, c, g, active) ==
    /\ IF c \notin DOMAIN configs \/ configs[c].user # u
       THEN /\ last' = ConfigAnswer(404, 0)
            /\ UNCHANGED configs
       ELSE IF <<u, g>> \notin Membership
       THEN /\ last' = ConfigAnswer(400, c)
            /\ UNCHANGED configs
       ELSE LET rows == [configs EXCEPT ![c].group = g,
                                        ![c].is_active = active]
            IN  IF ~UniqueActiveConfig(rows)
                THEN /\ last' = ConfigAnswer(500, c)
                     /\ UNCHANGED configs
                ELSE /\ configs' = rows
                     /\ last' = ConfigAnswer(200, c)
    /\ UNCHANGED <<accounts, today, contribs, contribSeq, gens, notifs, txns, run>>

\* No config yet
InitConfig ==
    /\ today = FirstDate
    /\ contribs = <<>>
    /\ contribSeq = 0
    /\ configs = <<>>
    /\ gens = {}
    /\ notifs = <<>>
    /\ txns = <<>>
    /\ run = [r \in Runs |-> IdleRun]
    /\ users = Members
    /\ audits = <<>>
    /\ penalties = <<>>
    /\ last = [op |-> "init", http |-> 0, c |-> 0, t |-> 0]

\* The config requests of the users
NextConfig ==
    \/ \E u \in Users, g \in Groups, amount \in ConfigAmounts,
          active \in BOOLEAN : CreateConfig(u, g, amount, active)
    \/ \E u \in Users, c \in 1 .. MaxConfigRows, g \in Groups,
          active \in BOOLEAN : UpdateConfig(u, c, g, active)
SpecConfig == InitConfig /\ [][NextConfig]_vars

\* One user creates configs and switches them on and off before and
\* during a real run of the command for the current month
NextActive ==
    \/ \E g \in {1, 2}, active \in BOOLEAN :
          CreateConfig(1, g, MIN_MONTHLY_SAVING, active)
    \/ \E c \in DOMAIN configs, active \in BOOLEAN :
          UpdateConfig(1, c, configs[c].group, active)
    \/ StartRun(1, NoMonthArg, FALSE)
    \/ CheckConfig(1)
    \/ InsertContribution(1)
    \/ InsertAudit(1)
    \/ InsertNotification(1)
SpecActive == InitConfig /\ [][NextActive]_vars

\* ------------------------------------------------------------------------
\* Properties of the auto-saving configs
\* ------------------------------------------------------------------------

\* C23: the command creates a contribution and an audit row only for a
\* config that had is_active true when the run read the configs: every
\* new Contribution or MonthlySavingGeneration row is the pair a run
\* commits for such a config, and is that config's.
C23_OnlyActiveConfigs ==
    [][(gens' # gens \/ contribSeq' # contribSeq \/ contribs' # contribs)
          => \E r \in Runs :
                /\ CreationCommitted(r)
                /\ run[r].cur \in run[r].snapshot
                /\ contribSeq' = contribSeq + 1
                /\ gens' = gens \cup
                      {[config |-> run[r].cur,
                        contribution |-> contribSeq',
                        generated_for_month |-> run[r].target]}
                /\ contribs'[contribSeq'].user = configs[run[r].cur].user
                /\ \A k \in DOMAIN contribs : contribs'[k] = contribs[k]]_vars

\* A run has finished that created a contribution for an active config,
\* and an older config that was inactive when the run started, and still
\* is, has no audit row.
C23_Witness ==
    \E r \in Runs, c, d \in DOMAIN configs :
        /\ run[r].pc = "done" /\ run[r].created > 0
        /\ c < d /\ d \in run[r].snapshot /\ c \notin run[r].snapshot
        /\ ~configs[c].is_active
        /\ \E g \in gens : g.config = d
        /\ ~\E g \in gens : g.config = c

\* The active configs of user u in group g
ActiveConfigsOf(u, g) ==
    {c \in DOMAIN configs :
        configs[c].is_active /\ configs[c].user = u /\ configs[c].group = g}

\* C24: in every reachable state a user has at most one active config in
\* a group.
C24_OneActiveConfigPerUserGroup ==
    \A u \in Users, g \in Groups : Cardinality(ActiveConfigsOf(u, g)) <= 1

\* The request to switch an inactive config on again was refused because
\* the user has another active config in the group.
C24_Witness ==
    /\ last.op = "config" /\ last.http = 500
    /\ last.c \in DOMAIN configs
    /\ ~configs[last.c].is_active
    /\ ActiveConfigsOf(configs[last.c].user, configs[last.c].group) # {}

\* ------------------------------------------------------------------------
\* Properties of the transaction records
\* ------------------------------------------------------------------------

\* Initiations and callbacks on two checkout ids
TwoCheckoutIds == 1 .. MaxTxns + 1

NextCheckout ==
    \/ \E u \in Users, k \in {0} \cup TwoCheckoutIds :
          InitiatePayment(u, NoContribution, k)
    \/ \E p \in Payloads(TwoCheckoutIds) : Callback(p)
SpecCheckout == InitOne /\ [][NextCheckout]_vars

\* The step inserts a MpesaTransaction row.
TransactionCreated ==
    \E k \in DOMAIN txns' : RowsWith(k) < txns'[k].copies

\* C25: no two MpesaTransaction rows share a checkout_request_id; a
\* callback that is stored changes the row of its CheckoutRequestID and no
\* other; and a row is inserted only by a payment initiation whose
\* provider response carries a CheckoutRequestID, under that id.
C25_UniqueCheckoutId ==
    /\ [](\A k \in DOMAIN txns : txns[k].copies = 1)
    /\ [][/\ (last'.op = "callback" /\ last'.http = 200)
              => /\ DOMAIN txns' = DOMAIN txns
                 /\ last'.t \in DOMAIN txns
                 /\ \A k \in DOMAIN txns \ {last'.t} : txns'[k] = txns[k]
          /\ TransactionCreated
              => /\ last'.op = "pay" /\ last'.http = 200
                 /\ last'.t # 0
                 /\ DOMAIN txns' = DOMAIN txns \cup {last'.t}
                 /\ \A k \in DOMAIN txns : txns'[k] = txns[k]
          /\ (last'.op = "pay" /\ last'.t = 0) => txns' = txns]_vars

\* Two transactions are stored, the provider sent an id again and the
\* insert was refused, and a callback has completed one transaction and
\* left the other pending.
C25_Witness ==
    /\ DOMAIN txns = TwoCheckoutIds
    /\ last.op = "pay" /\ last.http = 500
    /\ \E k \in DOMAIN txns :
          /\ txns[k].status = "SUCCESS"
          /\ \A j \in DOMAIN txns \ {k} : txns[j].status = "PENDING"

\* ------------------------------------------------------------------------
\* The collection rate of a monthly report (finance/report_service.py)
\* ------------------------------------------------------------------------

\* Rates are kept in hundredths of a percent: 100.0 is 10000.
\* round(x, 2) of x = num / (100 * den) percent: the nearest hundredth.
\* The code rounds a double; when x lies exactly between two hundredths
\* the error of the floating-point product decides, so either is possible.
Round2(num, den) ==
    LET q == num \div den
        r == num % den
    IN  IF 2 * r < den THEN {q}
        ELSE IF 2 * r > den THEN {q + 1}
        ELSE {q, q + 1}

\* Mutant of calculate_collection_rate: a contribution paid late counts as
\* collected
calculate_collection_rate_CountsLate(queryset) ==
    LET total_count == Len(queryset)
        paid_count == Cardinality({i \in DOMAIN queryset :
                          queryset[i].status \in {"PAID", "LATE"}})
    IN  IF total_count = 0 THEN {10000}
        ELSE Round2(10000 * paid_count, total_count)

\* ReportService._calculate_collection_rate: the values it can return
calculate_collection_rate(queryset) ==
    LET total_count == Len(queryset)
        paid_count == Cardinality({i \in DOMAIN queryset :
                          queryset[i].status = "PAID"})
    IN  IF total_count = 0 THEN {10000}
        ELSE Round2(10000 * paid_count, total_count)

\* get_monthly_summary's collection_rate for a month that holds every
\* stored contribution
CollectionRateReported ==
    /\ \E rate \in calculate_collection_rate(contribs) :
          last' = [op |-> "report", http |-> 200, c |-> rate, t |-> 0]
    /\ UNCHANGED <<accounts, today, contribs, contribSeq, configs, gens, notifs, txns,
                   run>>

\* The last day of the window
LastDate == CHOOSE d \in Dates : \A e \in Dates : e <= d

\* Stored contributions as Contribution.save() leaves them on the last day
\* of the window: paid in time, paid late, overdue, pending
RateRows ==
    {EvaluatedRow([user |-> 1, amount |-> MIN_MONTHLY_SAVING,
                   due_date |-> dp[1], paid_date |-> dp[2],
                   status |-> "PENDING", penalty |-> 0,
                   is_manual_entry |-> FALSE, reported_paid_date |-> NoDate,
                   generated |-> FALSE], LastDate) :
        dp \in {<<FirstDate, FirstDate>>, <<FirstDate, LastDate>>,
                <<FirstDate, NoDate>>, <<LastDate, NoDate>>}}

\* Any table of at most MaxRateRows such contributions
InitRate ==
    /\ today = LastDate
    /\ contribs \in UNION {[1 .. n -> RateRows] : n \in 0 .. MaxRateRows}
    /\ contribSeq = Len(contribs)
    /\ configs = [c \in Configs |->
                    [user |-> c, group |-> 1,
                     amount |-> MIN_MONTHLY_SAVING * c,
                     is_active |-> (c = 1)]]
    /\ gens = {}
    /\ notifs = <<>>
    /\ txns = <<>>
    /\ run = [r \in Runs |-> IdleRun]
    /\ users = Members
    /\ audits = <<>>
    /\ penalties = <<>>
    /\ last = [op |-> "init", http |-> 0, c |-> 0, t |-> 0]

NextRate == CollectionRateReported
SpecRate == InitRate /\ [][NextRate]_vars

\* The contributions with status s
WithStatus(s) == {i \in DOMAIN contribs : contribs[i].status = s}

FirstOfFollowingMonth(d) ==
    IF MonthOf(d) = 12 THEN MkDate(YearOf(d) + 1, 1, 1)
    ELSE MkDate(YearOf(d), MonthOf(d) + 1, 1)

\* C27: for every valid due date the save of a contribution computes its
\* status and suggested penalty without raising, and an unpaid
\* contribution without a stored penalty gets the penalty from the 1st of
\* the month after the due date's month on, the year incremented exactly
\* when the due date is in December.
C27_PenaltyStartNeverRaises ==
    [][\A k \in DOMAIN contribs :
          (last'.op = "update" /\ last'.c = k)
          => /\ last'.http = 200
             /\ (contribs[k].penalty = 0 /\ contribs'[k].paid_date = NoDate)
                  => contribs'[k].penalty =
                        IF today < FirstOfFollowingMonth(contribs'[k].due_date)
                        THEN 0 ELSE FIXED_MONTHLY_PENALTY]_vars

\* ------------------------------------------------------------------------
\* Who may add and review contributions (finance/views.py)
\* ------------------------------------------------------------------------

\* The user who sends a request about a contribution: the role, the
\* superuser flag, and whether the user is the treasurer of the
\* contribution's group
Roles == {"ADMIN", "TREASURER", "MEMBER"}
Actors == [role : Roles, is_superuser : BOOLEAN, manages : BOOLEAN]

\* user.role not in ("ADMIN", "TREASURER") and not user.is_superuser
NotReviewer(actor) ==
    actor.role \notin {"ADMIN", "TREASURER"} /\ ~actor.is_superuser

\* ContributionViewSet.get_queryset holds contribution c for the actor;
\* a member's own contributions are not told apart here, get_object is
\* reached by reviewers only
InQueryset(actor, c) ==
    /\ c \in DOMAIN contribs
    /\ \/ actor.is_superuser
       \/ actor.role = "ADMIN"
       \/ actor.role = "TREASURER" /\ actor.manages

\* The answer approve and reject give before they look at the
\* contribution's status: 403 to a user who is no reviewer, 404 from
\* get_object, 403 to a treasurer of another group, 0 when they go on
ReviewDenied(actor, c) ==
    IF NotReviewer(actor) THEN 403
    ELSE IF ~InQueryset(actor, c) THEN 404
    ELSE IF actor.role = "TREASURER" /\ ~actor.is_superuser /\ ~actor.manages
    THEN 403
    ELSE 0

\* ContributionViewSet.approve by any approved user
ApproveAs(actor, c) ==
    IF ReviewDenied(actor, c) # 0
    THEN /\ last' = [op |-> "approve", http |-> ReviewDenied(actor, c),
                     c |-> c, t |-> 0]
         /\ UNCHANGED <<accounts, today, contribs, contribSeq, configs, gens, notifs,
                        txns, run>>
    ELSE Approve(c)

\* ContributionViewSet.reject by any approved user
RejectAs(actor, c) ==
    IF ReviewDenied(actor, c) # 0
    THEN /\ last' = [op |-> "reject", http |-> ReviewDenied(actor, c),
                     c |-> c, t |-> 0]
         /\ UNCHANGED <<accounts, today, contribs, contribSeq, configs, gens, notifs,
                        txns, run>>
    ELSE Reject(c)

\* Contribution(...).save(**kwargs) of a new row: the table and its id
\* sequence afterwards
Inserted(row, kwargs) ==
    IF SaveRaises(kwargs) THEN [rows |-> contribs, seq |-> contribSeq]
    ELSE [rows |-> [k \in DOMAIN contribs \cup {contribSeq + 1} |->
                      IF k = contribSeq + 1 THEN EvaluatedRow(row, today)
                      ELSE contribs[k]],
          seq |-> contribSeq + 1]

\* AdminAddContributionView.post for member u of the actor's group with a
\* valid amount, and AdminAddContributionSerializer.create
AdminAddContribution(actor, u, paid) ==
    /\ ~WriteLocked
    /\ contribSeq < MaxContribs
    /\ LET row == [user |-> u, amount |-> MIN_MONTHLY_SAVING,
                   due_date |-> paid, paid_date |-> paid,
                   status |-> "PAID", penalty |-> 0,
                   is_manual_entry |-> FALSE, reported_paid_date |-> NoDate,
                   generated |-> FALSE]
           kwargs == {"skip_status_evaluation"}
           http == IF NotReviewer(actor) THEN 403
                   ELSE IF /\ actor.role = "TREASURER"
                           /\ ~actor.manages /\ ~actor.is_superuser
                   THEN 400
                   ELSE IF SaveRaises(kwargs) THEN 500
                   ELSE 201
       IN  /\ contribs' = IF http \in {500, 201}
                          THEN Inserted(row, kwargs).rows ELSE contribs
           /\ contribSeq' = IF http \in {500, 201}
                            THEN Inserted(row, kwargs).seq ELSE contribSeq
           /\ last' = [op |-> "add", http |-> http,
                       c |-> IF http = 201 THEN contribSeq + 1 ELSE 0,
                       t |-> 0]
    /\ UNCHANGED <<accounts, today, configs, gens, notifs, txns, run>>

\* ContributionViewSet.create by member u of the group, with a valid
\* amount: ManualContributionProposalSerializer validates the reported
\* date (NoDate: none given, today is taken) and create saves the row; the
\* reviewers are notified of a stored proposal (recipient 0).
ProposeContribution(u, reported) ==
    /\ ~WriteLocked
    /\ contribSeq < MaxContribs
    /\ LET row == [user |-> u, amount |-> MIN_MONTHLY_SAVING,
                   due_date |-> today, paid_date |-> NoDate,
                   status |-> "PENDING", penalty |-> 0,
                   is_manual_entry |-> TRUE,
                   reported_paid_date |->
                       IF reported = NoDate THEN today ELSE reported,
                   generated |-> FALSE]
           kwargs == {"skip_status_evaluation"}
           http == IF reported # NoDate /\ reported > today THEN 400
                   ELSE IF SaveRaises(kwargs) THEN 500
                   ELSE 201
       IN  /\ contribs' = IF http = 400 THEN contribs
                          ELSE Inserted(row, kwargs).rows
           /\ contribSeq' = IF http = 400 THEN contribSeq
                            ELSE Inserted(row, kwargs).seq
           /\ notifs' = IF http = 201
                        THEN WithNotification(
                            NotifKey(0, "Contribution Proposal Submitted", 0))
                        ELSE notifs
           /\ last' = [op |-> "propose", http |-> http,
                       c |-> IF http = 201 THEN contribSeq + 1 ELSE 0,
                       t |-> 0]
    /\ UNCHANGED <<accounts, today, configs, gens, txns, run>>

\* Contributions are added, proposed and reviewed by users of every kind
NextAccess ==
    \/ Tick
    \/ \E due \in Dates, reported \in {NoDate, today} :
          ContributionAdminAdd(1, due, reported)
    \/ \E actor \in Actors, paid \in Dates : AdminAddContribution(actor, 1, paid)
    \/ \E reported \in Dates \cup {NoDate} : ProposeContribution(1, reported)
    \/ \E actor \in Actors, c \in 1 .. MaxContribs : ApproveAs(actor, c)
    \/ \E actor \in Actors, c \in 1 .. MaxContribs : RejectAs(actor, c)
SpecAccess == InitOne /\ [][NextAccess]_vars

\* ------------------------------------------------------------------------
\* Properties of adding, proposing and reviewing contributions
\* ------------------------------------------------------------------------

\* The actor is an admin, or the treasurer of the group concerned.
AdminOrTreasurer(actor) ==
    actor.role = "ADMIN" \/ (actor.role = "TREASURER" /\ actor.manages)

\* C28: a contribution added by an admin or treasurer through the
\* admin-add endpoint is stored with status PAID and paid_date = due_date =
\* the given paid_date, for every given paid_date.
C28_AdminAddStoredPaid ==
    [][\A actor \in Actors, u \in Users, paid \in Dates :
          (AdminOrTreasurer(actor) /\ AdminAddContribution(actor, u, paid))
          => /\ last'.http = 201
             /\ contribSeq' = contribSeq + 1
             /\ contribs'[contribSeq'].user = u
             /\ contribs'[contribSeq'].status = "PAID"
             /\ contribs'[contribSeq'].paid_date = paid
             /\ contribs'[contribSeq'].due_date = paid]_vars

\* C29: a manual contribution proposal a member submits with no reported
\* date, today's or a past one is stored with status PENDING,
\* is_manual_entry true and paid_date null, and a stored proposal leaves
\* PENDING only by an approve or reject request.
C29_ProposalStoredPending ==
    [][/\ \A u \in Users, reported \in Dates \cup {NoDate} :
            (reported <= today /\ ProposeContribution(u, reported))
            => /\ last'.http = 201
               /\ contribSeq' = contribSeq + 1
               /\ contribs'[contribSeq'].status = "PENDING"
               /\ contribs'[contribSeq'].is_manual_entry
               /\ contribs'[contribSeq'].paid_date = NoDate
       /\ \A k \in DOMAIN contribs :
            (/\ contribs[k].is_manual_entry
             /\ contribs[k].status = "PENDING"
             /\ contribs'[k].status # "PENDING")
            => last'.op \in {"approve", "reject"}]_vars

\* C30: an approve or reject request from a user who is neither admin nor
\* treasurer nor superuser, or from a treasurer of another group, is
\* answered 403 and leaves the contribution as it was.
C30_UnauthorizedReviewForbidden ==
    [][\A actor \in Actors, c \in DOMAIN contribs :
          (/\ ~actor.is_superuser
           /\ ~AdminOrTreasurer(actor)
           /\ (ApproveAs(actor, c) \/ RejectAs(actor, c)))
          => /\ last'.http = 403
             /\ contribs' = contribs]_vars

\* C35: a contribution that a reject request was made for while it was
\* PENDING is REJECTED afterwards, and a REJECTED contribution stays
\* REJECTED under every later operation.
C35_RejectedStaysRejected ==
    [][\A k \in DOMAIN contribs :
          (\/ /\ last'.op = "reject"
              /\ last'.c = k
              /\ contribs[k].status = "PENDING"
           \/ contribs[k].status = "REJECTED")
          => /\ k \in DOMAIN contribs'
             /\ contribs'[k].status = "REJECTED"]_vars

\* Contributions due on the first day are added, and approve and reject
\* requests are made for them as the days pass
NextVerdict ==
    \/ Tick
    \/ \E reported \in {NoDate, today} :
          ContributionAdminAdd(1, FirstDate, reported)
    \/ \E c \in 1 .. MaxContribs : Approve(c)
    \/ \E c \in 1 .. MaxContribs : Reject(c)
SpecVerdict == InitOne /\ [][NextVerdict]_vars

\* C36: an approve or reject request for a contribution that is not PENDING
\* is answered 400 and changes nothing; a request that does change the
\* contribution finds it PENDING and leaves it in another status, so no
\* second request on it takes effect.
C36_ReviewOnlyPending ==
    [][\A k \in DOMAIN contribs :
          (last'.op \in {"approve", "reject"} /\ last'.c = k)
          => /\ contribs[k].status # "PENDING"
                => last'.http = 400 /\ contribs' = contribs
             /\ contribs'[k] # contribs[k]
                => /\ contribs[k].status = "PENDING"
                   /\ contribs'[k].status # "PENDING"]_vars

\* An approve and a reject request were answered 400 for a contribution
\* that is not PENDING
C36_Witness ==
    /\ last.op \in {"approve", "reject"}
    /\ last.http = 400
    /\ last.c \in DOMAIN contribs
    /\ contribs[last.c].status # "PENDING"

\* ------------------------------------------------------------------------
\* Status polls and callbacks for one payment
\* ------------------------------------------------------------------------

\* A member's payments for contributions due today: every transaction is
\* polled any number of times and receives callbacks, the first of them
\* only (FirstCallback) or all of them
FirstCallback(p) ==
    /\ p.checkout \in DOMAIN txns
    /\ ~txns[p.checkout].raw_callback
    /\ Callback(p)

NextPoll ==
    \/ ContributionAdminAdd(1, today, NoDate)
    \/ \E c \in 0 .. MaxContribs, k \in 1 .. MaxTxns : InitiatePayment(1, c, k)
    \/ \E k \in 1 .. MaxTxns + 1, res \in QueryResults : PollStatus(k, res)
    \/ \E p \in Payloads(CheckoutIds) :
          p.stk /\ p.receipt = "present" /\ FirstCallback(p)
SpecPoll == InitOne /\ [][NextPoll]_vars

\* C37: with status polls and one callback for a transaction, in any order,
\* a successful payment has exactly one 'Payment Successful' notification,
\* and the linked contribution is written only by the request that makes
\* the transaction SUCCESS, which leaves it PAID.
C37_OneNoticeOnePaid ==
    /\ [](\A k \in DOMAIN txns :
            txns[k].status = "SUCCESS" => NotifCount(PaymentNotif(k)) = 1)
    /\ [][\A k \in DOMAIN txns :
            (/\ last'.op \in {"poll", "callback"}
             /\ last'.t = k
             /\ contribs' # contribs)
            => /\ txns[k].status = "PENDING"
               /\ txns'[k].status = "SUCCESS"
               /\ contribs'[txns[k].contribution].status = "PAID"]_vars

\* C38: a poll for a transaction that is SUCCESS or FAILED does not ask the
\* provider, answers with the stored status and writes nothing; a poll of a
\* PENDING transaction whose provider result is neither success ("0") nor
\* cancelled/timeout ("1032", "1037") leaves it as it was.
C38_PollWritesOnlyPending ==
    [][\A k \in DOMAIN txns :
          (last'.op = "poll" /\ last'.t = k)
          => /\ txns[k].status # "PENDING"
                => /\ ~last'.queried
                   /\ last'.status = txns[k].status
                   /\ txns' = txns
                   /\ contribs' = contribs
                   /\ notifs' = notifs
             /\ (txns[k].status = "PENDING"
                 /\ last'.res \notin {"0", "1032", "1037"})
                => /\ txns' = txns
                   /\ contribs' = contribs
                   /\ notifs' = notifs]_vars

\* A poll found the transaction SUCCESS or FAILED and answered with that,
\* and a poll of a PENDING transaction got a result the view does not act on
C38_Witness ==
    /\ last.op = "poll"
    /\ last.http = 200
    /\ \/ ~last.queried /\ txns[last.t].status = "FAILED"
       \/ last.queried /\ last.res = "1" /\ txns[last.t].status = "PENDING"

\* ------------------------------------------------------------------------
\* Deleting contributions and resetting a member's financial account
\* (finance/views.py)
\* ------------------------------------------------------------------------

\* The tables after the contributions in S are deleted: the generation
\* audit rows go with their contribution (on_delete=CASCADE), the M-Pesa
\* transactions lose the link (on_delete=SET_NULL)
DeletedContributions(S) ==
    [rows |-> [k \in DOMAIN contribs \ S |-> contribs[k]],
     gens |-> {g \in gens : g.contribution \notin S},
     txns |-> [k \in DOMAIN txns |->
                 IF txns[k].contribution \in S
                 THEN [txns[k] EXCEPT !.contribution = NoContribution]
                 ELSE txns[k]]]

\* ContributionViewSet.get_queryset holds contribution c for the actor, who
\* is (owns) or is not the user the contribution belongs to
InDetailQueryset(actor, owns, c) ==
    /\ c \in DOMAIN contribs
    /\ \/ actor.is_superuser
       \/ actor.role = "ADMIN"
       \/ actor.role = "TREASURER" /\ actor.manages
       \/ actor.role = "MEMBER" /\ owns

\* The answer destroy gives before it deletes: 404 from get_object, 403 to
\* a user who is no reviewer, 403 to a treasurer of another group, 0 when
\* it goes on
DestroyDenied(actor, owns, c) ==
    IF ~InDetailQueryset(actor, owns, c) THEN 404
    ELSE IF NotReviewer(actor) THEN 403
    ELSE IF actor.role = "TREASURER" /\ ~actor.is_superuser /\ ~actor.manages
    THEN 403
    ELSE 0

\* ContributionViewSet.destroy by any approved user
DestroyAs(actor, owns, c) ==
    /\ ~WriteLocked
    /\ c \in 1 .. contribSeq
    /\ LET http == DestroyDenied(actor, owns, c)
           after == IF http = 0 THEN DeletedContributions({c})
                    ELSE [rows |-> contribs, gens |-> gens, txns |-> txns]
       IN  /\ contribs' = after.rows
           /\ gens' = after.gens
           /\ txns' = after.txns
           /\ last' = [op |-> "destroy",
                       http |-> IF http = 0 THEN 204 ELSE http,
                       c |-> c, t |-> 0]
    /\ UNCHANGED <<accounts, today, contribSeq, configs, notifs, run>>

\* The user of the request exists
UserExists(u) == u \in DOMAIN users /\ users[u] # NoUser

\* PenaltyViewSet.perform_create for a penalty on user u linked to no
\* contribution (posted = 0: no amount given), and the post_save handler
\* notify_penalty_assigned.  For a treasurer, manages says whether u is in
\* a group of theirs.
PenalizeUser(actor, u, posted) ==
    /\ ~WriteLocked
    /\ UserExists(u)
    /\ Len(penalties) < MaxPenalties
    /\ NotifCount(NotifKey(u, "Penalty Applied", 0)) < MaxNotifs
    /\ LET http == IF actor.role = "TREASURER" /\ ~actor.manages THEN 403
                   ELSE IF actor.role \notin {"ADMIN", "TREASURER"} THEN 403
                   ELSE IF posted = 0 THEN 400
                   ELSE 201
       IN  /\ penalties' = IF http = 201
                           THEN Append(penalties,
                                       [user |-> u, amount |-> posted])
                           ELSE penalties
           /\ notifs' = IF http = 201
                        THEN WithNotification(
                                NotifKey(u, "Penalty Applied", 0))
                        ELSE notifs
           /\ last' = [op |-> "penalize", http |-> http, c |-> 0, t |-> 0]
    /\ UNCHANGED <<today, contribs, contribSeq, configs, gens, txns, run,
                   users, audits>>

\* Mutant of ContributionsOf: the contributions of every user
ContributionsOf_All(u) == DOMAIN contribs

\* Contribution.objects.filter(user=target_user)
ContributionsOf(u) == {c \in DOMAIN contribs : contribs[c].user = u}

\* Penalty.objects.filter(user=target_user, contribution__isnull=True), as
\* the positions of the rows
StandalonePenaltiesOf(u) ==
    {i \in 1 .. Len(penalties) : penalties[i].user = u}

\* The Penalty rows left when those of user u are deleted
PenaltiesWithout(u) == SelectSeq(penalties, LAMBDA p : p.user # u)

\* AdminResetMemberFinanceView.post
ResetMemberFinance(actor, user_id, reset_account_status) ==
    /\ ~WriteLocked
    /\ IF actor.role # "ADMIN" /\ ~actor.is_superuser
       THEN /\ last' = [op |-> "reset", http |-> 403, c |-> 0, t |-> 0,
                        target |-> user_id]
            /\ UNCHANGED <<contribs, gens, txns, users, audits, penalties>>
       ELSE IF ~UserExists(user_id)
       THEN /\ last' = [op |-> "reset", http |-> 400, c |-> 0, t |-> 0,
                        target |-> user_id]
            /\ UNCHANGED <<contribs, gens, txns, users, audits, penalties>>
       ELSE LET contribution_count == Cardinality(ContributionsOf(user_id))
                standalone_penalty_count ==
                    Cardinality(StandalonePenaltiesOf(user_id))
                after == DeletedContributions(ContributionsOf(user_id))
            IN  /\ contribs' = after.rows
                /\ gens' = after.gens
                /\ txns' = after.txns
                /\ penalties' = PenaltiesWithout(user_id)
                /\ users' = IF reset_account_status
                            THEN [users EXCEPT ![user_id] =
                                    [@ EXCEPT
                                       !.is_approved = FALSE,
                                       !.application_status = "UNDER_REVIEW",
                                       !.membership_number = NoNumber]]
                            ELSE users
                /\ audits' = Append(audits,
                      [actor |-> actor, target_user |-> user_id,
                       action |-> "DEACTIVATION",
                       notes |-> <<contribution_count,
                                   standalone_penalty_count,
                                   reset_account_status>>])
                /\ last' = [op |-> "reset", http |-> 200, c |-> 0, t |-> 0,
                            target |-> user_id,
                            deleted_contributions |-> contribution_count,
                            deleted_standalone_penalties |->
                                standalone_penalty_count]
    /\ UNCHANGED <<today, contribSeq, configs, notifs, run>>

\* The accounts of MaxUsers approved members
ApprovedMembers ==
    [u \in 1 .. MaxUsers |->
        [role |-> "MEMBER", is_superuser |-> FALSE, is_active |-> TRUE,
         is_approved |-> TRUE, application_status |-> "APPROVED",
         membership_number |-> MembershipNumber(WindowStart.year, u)]]

InitRemoval ==
    /\ today = FirstDate
    /\ contribs = <<>>
    /\ contribSeq = 0
    /\ configs = [c \in Configs |->
                    [user |-> c, group |-> 1,
                     amount |-> MIN_MONTHLY_SAVING * c,
                     is_active |-> (c = 1)]]
    /\ gens = {}
    /\ notifs = <<>>
    /\ txns = <<>>
    /\ run = [r \in Runs |-> IdleRun]
    /\ users = ApprovedMembers
    /\ audits = <<>>
    /\ penalties = <<>>
    /\ last = [op |-> "init", http |-> 0, c |-> 0, t |-> 0]

\* The users who send the requests: an admin, the treasurer of the group,
\* a treasurer of another group, a member, and a superuser
Requesters ==
    {[role |-> "ADMIN", is_superuser |-> FALSE, manages |-> FALSE],
     [role |-> "TREASURER", is_superuser |-> FALSE, manages |-> TRUE],
     [role |-> "TREASURER", is_superuser |-> FALSE, manages |-> FALSE],
     [role |-> "MEMBER", is_superuser |-> FALSE, manages |-> FALSE],
     [role |-> "MEMBER", is_superuser |-> TRUE, manages |-> FALSE]}

\* Contributions and penalties of two members, deleted one by one or by
\* the first reset of the first member's account
NextRemoval ==
    \/ \E u \in {1, 2} : ContributionAdminAdd(u, today, NoDate)
    \/ \E actor \in Requesters, u \in {1, 2} :
          PenalizeUser(actor, u, FIXED_MONTHLY_PENALTY)
    \/ \E actor \in Requesters, owns \in BOOLEAN, c \in 1 .. MaxContribs :
          DestroyAs(actor, owns, c)
    \/ /\ audits = <<>>
       /\ \E actor \in Requesters, u \in {1, MaxUsers + 1}, reset \in BOOLEAN :
             ResetMemberFinance(actor, u, reset)
SpecRemoval == InitRemoval /\ [][NextRemoval]_vars

\* ------------------------------------------------------------------------
\* Properties of deleting and resetting
\* ------------------------------------------------------------------------

\* C31: a delete request on a contribution from a user who is neither
\* admin nor treasurer nor superuser, or from a treasurer of another group,
\* is answered 403 and the contribution still exists afterwards.
C31_UnauthorizedDeleteForbidden ==
    [][\A actor \in Actors, owns \in BOOLEAN, c \in DOMAIN contribs :
          (/\ ~actor.is_superuser
           /\ ~AdminOrTreasurer(actor)
           /\ DestroyAs(actor, owns, c))
          => /\ last'.http = 403
             /\ c \in DOMAIN contribs'
             /\ contribs' = contribs]_vars

\* The rows of the users other than u
OthersContributions(rows, u) ==
    [k \in {c \in DOMAIN rows : rows[c].user # u} |-> rows[k]]

IsDecimal(text) ==
    /\ Len(text) > 0
    /\ \A i \in 1 .. Len(text) : \E d \in 1 .. 10 : DigitChars[d] = text[i]

DigitValue(ch) == (CHOOSE d \in 1 .. 10 : DigitChars[d] = ch) - 1

RECURSIVE IntOf(_)
IntOf(text) ==
    IF Len(text) = 0 THEN 0
    ELSE IntOf(SubSeq(text, 1, Len(text) - 1)) * 10
         + DigitValue(text[Len(text)])

\* int(text): the value, or the ValueError it raises
ParseInt(text) ==
    IF IsDecimal(text) THEN [raised |-> "none", value |-> IntOf(text)]
    ELSE [raised |-> "ValueError", value |-> 0]

\* A number typed in by hand, as the tests store it: "SV-TEST123"
TypedNumber == [tag |-> "SV", year |-> 0, last |-> <<"T", "E", "S", "T", "1", "2", "3">>]

\* User.objects.filter(membership_number__isnull=False)
NumberHolders ==
    {u \in DOMAIN users : UserExists(u) /\ users[u].membership_number # NoNumber}

LastOf(S) == CHOOSE u \in S : \A v \in S : v <= u

\* User.generate_membership_number: one more than the number of the holder
\* with the highest id, or 1 when nobody holds one or it cannot be read
generate_membership_number ==
    IF NumberHolders = {}
    THEN [raised |-> "none", number |-> MembershipNumber(YearOf(today), 1)]
    ELSE LET last_member == LastOf(NumberHolders)
             parsed == ParseInt(users[last_member].membership_number.last)
             new_number == IF parsed.raised = "none" THEN parsed.value + 1
                           ELSE 1
         IN  [raised |-> "none",
              number |-> MembershipNumber(YearOf(today), new_number)]

\* Mutant of NumberTaken: the column is not unique
NumberTaken_Never(u, number) == FALSE

\* membership_number is unique: saving number for user u fails when another
\* row holds it
NumberTaken(u, number) ==
    \E v \in DOMAIN users :
        v # u /\ UserExists(v) /\ users[v].membership_number = number

\* JWT authentication and IsAdminOrTreasurer (RolePermission): 0 when the
\* request of user a passes, else the status answered
AdminDenied(a) ==
    IF ~UserExists(a) \/ ~users[a].is_active THEN 401
    ELSE IF users[a].is_superuser THEN 0
    ELSE IF ~users[a].is_approved THEN 403
    ELSE IF users[a].role \notin {"ADMIN", "TREASURER"} THEN 403
    ELSE 0

\* The status a detail request of user a about user u is answered with
\* before its handler runs: permission, then get_object
DetailDenied(a, u) ==
    IF AdminDenied(a) # 0 THEN AdminDenied(a)
    ELSE IF ~UserExists(u) THEN 404
    ELSE 0

AccountLast(op, http, u) ==
    [op |-> op, http |-> http, c |-> 0, t |-> 0, user |-> u]

\* User.approve_member succeeds: the member is not approved yet, and the
\* number generated for them can be saved
approve_member(u) ==
    /\ users[u].application_status # "APPROVED"
    /\ generate_membership_number.raised = "none"
    /\ ~NumberTaken(u, generate_membership_number.number)

\* UserViewSet.approve by user a for user u, with User.approve_member
UserApprove(a, u) ==
    /\ Len(audits) < MaxAudits
    /\ NotifCount(NotifKey(u, "Membership Approved", 0)) < MaxNotifs
    /\ LET http == IF DetailDenied(a, u) # 0 THEN DetailDenied(a, u)
                   ELSE IF users[u].application_status = "APPROVED" THEN 400
                   ELSE IF ~approve_member(u) THEN 500
                   ELSE 200
           number == generate_membership_number.number
       IN  /\ users' = IF http = 200
                       THEN [users EXCEPT ![u] =
                               [@ EXCEPT !.membership_number = number,
                                         !.is_approved = TRUE,
                                         !.application_status = "APPROVED"]]
                       ELSE users
           /\ notifs' = IF http = 200
                        THEN WithNotification(
                                NotifKey(u, "Membership Approved", 0))
                        ELSE notifs
           /\ audits' = IF http = 200
                        THEN Append(audits,
                                [actor |-> [id |-> a], target_user |-> u,
                                 action |-> "APPROVAL", notes |-> number])
                        ELSE audits
           /\ last' = AccountLast("approve", http, u)
    /\ UNCHANGED <<today, contribs, contribSeq, configs, gens, txns, run,
                   penalties>>

\* Mutant of UserReject: the account stays active
UserReject_StaysActive(a, u) ==
    /\ LET http == DetailDenied(a, u)
       IN  /\ users' = IF http = 0
                       THEN [users EXCEPT ![u] =
                               [@ EXCEPT !.application_status = "REJECTED"]]
                       ELSE users
           /\ last' = AccountLast("reject", IF http = 0 THEN 200 ELSE http, u)
    /\ UNCHANGED <<today, contribs, contribSeq, configs, gens, notifs, txns,
                   run, audits, penalties>>

\* UserViewSet.reject by user a for user u
UserReject(a, u) ==
    /\ LET http == DetailDenied(a, u)
       IN  /\ users' = IF http = 0
                       THEN [users EXCEPT ![u] =
                               [@ EXCEPT !.application_status = "REJECTED",
                                         !.is_active = FALSE]]
                       ELSE users
           /\ last' = AccountLast("reject", IF http = 0 THEN 200 ELSE http, u)
    /\ UNCHANGED <<today, contribs, contribSeq, configs, gens, notifs, txns,
                   run, audits, penalties>>

\* The admin site's change form of User (UserAdmin) saves a membership
\* number typed in by hand; the form refuses one that another row holds
UserAdminChange(u, number) ==
    /\ UserExists(u)
    /\ LET http == IF NumberTaken(u, number) THEN 400 ELSE 200
       IN  /\ users' = IF http = 200
                       THEN [users EXCEPT ![u].membership_number = number]
                       ELSE users
           /\ last' = AccountLast("admin_change", http, u)
    /\ UNCHANGED <<today, contribs, contribSeq, configs, gens, notifs, txns,
                   run, audits, penalties>>

\* The rows left in notifs when the notifications of user u are deleted
NotifsWithout(u) ==
    [k \in {x \in DOMAIN notifs : x.recipient # u} |-> notifs[k]]

\* UserViewSet.delete_account by user u: the audit row written for the
\* deletion goes with the user, as do the rows that point at the user with
\* on_delete=CASCADE; AuditLog.actor is SET_NULL
DeleteAccount(u) ==
    /\ ~WriteLocked
    /\ LET http == IF ~UserExists(u) \/ ~users[u].is_active THEN 401
                   ELSE 204
           after == DeletedContributions(ContributionsOf(u))
       IN  IF http = 204
           THEN /\ users' = [users EXCEPT ![u] = NoUser]
                /\ audits' =
                      [i \in 1 .. Len(SelectSeq(audits,
                                    LAMBDA e : e.target_user # u)) |->
                          LET e == SelectSeq(audits,
                                    LAMBDA x : x.target_user # u)[i]
                          IN  IF e.actor = [id |-> u]
                              THEN [e EXCEPT !.actor = NoUser] ELSE e]
                /\ contribs' = after.rows
                /\ gens' = {g \in after.gens : configs[g.config].user # u}
                /\ txns' = [k \in {x \in DOMAIN after.txns :
                                     after.txns[x].user # u} |->
                               after.txns[k]]
                /\ penalties' = PenaltiesWithout(u)
                /\ notifs' = NotifsWithout(u)
                /\ configs' = [k \in {x \in DOMAIN configs :
                                        configs[x].user # u} |-> configs[k]]
                /\ last' = AccountLast("delete_account", http, u)
           ELSE /\ last' = AccountLast("delete_account", http, u)
                /\ UNCHANGED <<users, audits, contribs, gens, txns,
                               penalties, notifs, configs>>
    /\ UNCHANGED <<today, contribSeq, run>>

\* The accounts the approval tests start from: an admin (user 1) and
\* applicants who have activated their accounts
Administrator ==
    [role |-> "ADMIN", is_superuser |-> FALSE, is_active |-> TRUE,
     is_approved |-> TRUE, application_status |-> "PENDING",
     membership_number |-> NoNumber]

Applicant ==
    [role |-> "MEMBER", is_superuser |-> FALSE, is_active |-> TRUE,
     is_approved |-> FALSE, application_status |-> "PENDING",
     membership_number |-> NoNumber]

InitMembership ==
    /\ today = FirstDate
    /\ contribs = <<>>
    /\ contribSeq = 0
    /\ configs = <<>>
    /\ gens = {}
    /\ notifs = <<>>
    /\ txns = <<>>
    /\ run = [r \in Runs |-> IdleRun]
    /\ users = [u \in 1 .. MaxUsers |->
                  IF u = 1 THEN Administrator ELSE Applicant]
    /\ audits = <<>>
    /\ penalties = <<>>
    /\ last = [op |-> "init", http |-> 0, c |-> 0, t |-> 0]

\* Approvals by the admin, finance resets that send a member back to review,
\* members deleting their accounts, and numbers typed in on the admin site
NextMembership ==
    \/ \E u \in 1 .. MaxUsers : UserApprove(1, u)
    \/ /\ Len(audits) < MaxAudits
       /\ \E u \in 2 .. MaxUsers :
             ResetMemberFinance(
                [role |-> "ADMIN", is_superuser |-> FALSE, manages |-> FALSE],
                u, TRUE)
    \/ \E u \in 2 .. MaxUsers : DeleteAccount(u)
    \/ \E u \in 2 .. MaxUsers : UserAdminChange(u, TypedNumber)

SpecMembership == InitMembership /\ [][NextMembership]_vars

\* ------------------------------------------------------------------------
\* Properties of approval and membership numbers
\* ------------------------------------------------------------------------

\* C33: when the admin approves a user who is not yet APPROVED, the user ends
\* approved (is_approved, application_status APPROVED), holds a membership
\* number and has received exactly one more 'Membership Approved'
\* notification; approving a user who is already APPROVED is answered 400
\* and changes nothing.
C33_ApprovalCompletes ==
    [][last'.op = "approve" =>
       \A u \in 1 .. MaxUsers :
          (DetailDenied(1, u) = 0 /\ UserApprove(1, u)) =>
             IF users[u].application_status # "APPROVED"
             THEN /\ users'[u].is_approved
                  /\ users'[u].application_status = "APPROVED"
                  /\ users'[u].membership_number # NoNumber
                  /\ notifs'[NotifKey(u, "Membership Approved", 0)] =
                        NotifCount(NotifKey(u, "Membership Approved", 0)) + 1
             ELSE /\ last'.http = 400
                  /\ users' = users
                  /\ notifs' = notifs
                  /\ audits' = audits]_vars

\* C39: generate_membership_number never raises, whatever numbers are stored,
\* and no two users hold the same membership number, through approvals,
\* finance resets that clear a number, deleted accounts and a most recent
\* number that cannot be parsed.
C39_NumbersDistinct ==
    /\ generate_membership_number.raised = "none"
    /\ \A u, v \in NumberHolders :
          u # v => users[u].membership_number # users[v].membership_number

\* An approval went through with the sequence restarted at 1, because the
\* holder with the highest id has a number that is not a decimal
C39_Witness ==
    /\ last.op = "approve"
    /\ last.http = 200
    /\ users[last.user].membership_number = MembershipNumber(YearOf(today), 1)
    /\ \E v \in NumberHolders :
          /\ v = LastOf(NumberHolders)
          /\ users[v].membership_number = TypedNumber
    /\ \E v \in DOMAIN users : users[v] = NoUser

\* ------------------------------------------------------------------------
\* Accounts: registration, activation and login (accounts/serializers.py,
\* accounts/views.py)
\* ------------------------------------------------------------------------

\* The row RegisterSerializer.create hands to create_user
Registered ==
    [role |-> "MEMBER", is_superuser |-> FALSE, is_active |-> FALSE,
     is_approved |-> FALSE, application_status |-> "PENDING",
     membership_number |-> NoNumber]

\* RegisterView: a valid form creates the user, and create_welcome_notification
\* (post_save) greets them; an invalid one (passwords that differ, a weak
\* password) is answered 400
Register(valid) ==
    /\ Len(users) < MaxUsers
    /\ IF valid
       THEN /\ users' = Append(users, Registered)
            /\ notifs' = WithNotification(
                  NotifKey(Len(users) + 1, "Welcome to SeedVest!", 0))
            /\ last' = AccountLast("register", 201, Len(users) + 1)
       ELSE /\ last' = AccountLast("register", 400, 0)
            /\ UNCHANGED <<users, notifs>>
    /\ UNCHANGED <<today, contribs, contribSeq, configs, gens, txns, run,
                   audits, penalties>>

\* User.objects.filter(role__in=["ADMIN", "TREASURER"])
AdminsAndTreasurers ==
    {a \in DOMAIN users : UserExists(a) /\ users[a].role \in {"ADMIN", "TREASURER"}}

\* One more notification with the title for every recipient
WithNotifications(recipients, title) ==
    LET keys == {NotifKey(a, title, 0) : a \in recipients}
    IN  [x \in DOMAIN notifs \cup keys |->
            IF x \in keys THEN NotifCount(x) + 1 ELSE notifs[x]]

\* ActivateAccountView.get for the link of user u; accepted says whether
\* account_activation_token.check_token takes the token of the link
Activate(u, accepted) ==
    /\ \A a \in AdminsAndTreasurers :
          NotifCount(NotifKey(a, "New Membership Application", 0)) < MaxNotifs
    /\ LET http == IF ~UserExists(u) THEN 400
                   ELSE IF ~accepted THEN 400
                   ELSE 200
       IN  /\ users' = IF http = 200
                       THEN [users EXCEPT ![u] =
                               [@ EXCEPT !.is_active = TRUE,
                                         !.application_status = "UNDER_REVIEW"]]
                       ELSE users
           /\ notifs' = IF http = 200
                        THEN WithNotifications(AdminsAndTreasurers,
                                               "New Membership Application")
                        ELSE notifs
           /\ last' = AccountLast("activate", http, u)
    /\ UNCHANGED <<today, contribs, contribSeq, configs, gens, txns, run,
                   audits, penalties>>

\* LoginView.post with the email of user u and a password that is
\* (password_ok) or is not the user's
Login(u, password_ok) ==
    /\ LET http == IF ~UserExists(u) \/ ~password_ok THEN 401
                   ELSE IF ~users[u].is_active THEN 403
                   ELSE IF /\ ~users[u].is_superuser
                           /\ ~users[u].is_approved
                           /\ users[u].application_status # "APPROVED"
                        THEN 403
                   ELSE 200
       IN  last' = [op |-> "login", http |-> http, c |-> 0, t |-> 0,
                    user |-> u, tokens |-> (http = 200)]
    /\ UNCHANGED <<accounts, today, contribs, contribSeq, configs, gens,
                   notifs, txns, run>>

InitLogin ==
    /\ today = FirstDate
    /\ contribs = <<>>
    /\ contribSeq = 0
    /\ configs = <<>>
    /\ gens = {}
    /\ notifs = <<>>
    /\ txns = <<>>
    /\ run = [r \in Runs |-> IdleRun]
    /\ users = <<Administrator>>
    /\ audits = <<>>
    /\ penalties = <<>>
    /\ last = [op |-> "init", http |-> 0, c |-> 0, t |-> 0]

\* Any sequence of register, activate, approve, reject and login
NextLogin ==
    \/ \E valid \in BOOLEAN : Register(valid)
    \/ \E u \in 2 .. MaxUsers, accepted \in BOOLEAN : Activate(u, accepted)
    \/ \E u \in 2 .. MaxUsers : UserApprove(1, u)
    \/ \E u \in 2 .. MaxUsers : UserReject(1, u)
    \/ \E u \in 1 .. MaxUsers, password_ok \in BOOLEAN : Login(u, password_ok)

SpecLogin == InitLogin /\ [][NextLogin]_vars

ROLE_CHOICES == {"ADMIN", "TREASURER", "MEMBER"}

\* request.data.get("role"): a role, another text, or nothing
RoleInputs == ROLE_CHOICES \cup {"OWNER", "none"}

RoleLast(http, a, u, new_role) ==
    [op |-> "set_role", http |-> http, c |-> 0, t |-> 0, user |-> u,
     actor |-> a, role |-> new_role]

\* Mutant of SetRole: a user may take any role away from themselves
SetRole_NoSafety(a, u, new_role) ==
    /\ Len(audits) < MaxAudits
    /\ LET http == IF DetailDenied(a, u) # 0 THEN DetailDenied(a, u)
                   ELSE IF new_role \notin ROLE_CHOICES THEN 400
                   ELSE 200
       IN  /\ users' = IF http = 200
                       THEN [users EXCEPT ![u].role = new_role]
                       ELSE users
           /\ audits' = IF http = 200
                        THEN Append(audits,
                                [actor |-> [id |-> a], target_user |-> u,
                                 action |-> "ROLE_CHANGE",
                                 notes |-> <<users[u].role, new_role>>])
                        ELSE audits
           /\ last' = RoleLast(http, a, u, new_role)
    /\ UNCHANGED <<today, contribs, contribSeq, configs, gens, notifs, txns,
                   run, penalties>>

\* UserViewSet.set_role by user a for user u
SetRole(a, u, new_role) ==
    /\ Len(audits) < MaxAudits
    /\ LET http == IF DetailDenied(a, u) # 0 THEN DetailDenied(a, u)
                   ELSE IF new_role \notin ROLE_CHOICES THEN 400
                   ELSE IF /\ u = a
                           /\ ~users[a].is_superuser
                           /\ new_role # "ADMIN"
                        THEN 403
                   ELSE 200
       IN  /\ users' = IF http = 200
                       THEN [users EXCEPT ![u].role = new_role]
                       ELSE users
           /\ audits' = IF http = 200
                        THEN Append(audits,
                                [actor |-> [id |-> a], target_user |-> u,
                                 action |-> "ROLE_CHANGE",
                                 notes |-> <<users[u].role, new_role>>])
                        ELSE audits
           /\ last' = RoleLast(http, a, u, new_role)
    /\ UNCHANGED <<today, contribs, contribSeq, configs, gens, notifs, txns,
                   run, penalties>>

\* An admin (user 1), a superuser (user 2) and approved members
InitRoles ==
    /\ today = FirstDate
    /\ contribs = <<>>
    /\ contribSeq = 0
    /\ configs = <<>>
    /\ gens = {}
    /\ notifs = <<>>
    /\ txns = <<>>
    /\ run = [r \in Runs |-> IdleRun]
    /\ users = [u \in 1 .. MaxUsers |->
                  [role |-> IF u <= 2 THEN "ADMIN" ELSE "MEMBER",
                   is_superuser |-> (u = 2), is_active |-> TRUE,
                   is_approved |-> TRUE, application_status |-> "APPROVED",
                   membership_number |-> MembershipNumber(YearOf(FirstDate), u)]]
    /\ audits = <<>>
    /\ penalties = <<>>
    /\ last = [op |-> "init", http |-> 0, c |-> 0, t |-> 0]

\* Role changes asked for by the admin, the superuser and a member, for the
\* admin, the superuser and a user that does not exist
NextRoles ==
    \E a \in 1 .. 3, u \in {1, 2, MaxUsers + 1}, new_role \in RoleInputs :
       SetRole(a, u, new_role)

SpecRoles == InitRoles /\ [][NextRoles]_vars

\* C40: a user who is no superuser and asks for a role other than ADMIN for
\* themselves is answered 403 and keeps their role; a role outside ADMIN,
\* TREASURER and MEMBER is answered 400 and nothing changes; a role changes
\* only in a request answered 200, and each such request appends exactly one
\* ROLE_CHANGE audit entry that names the user, the old role and the new one.
C40_SetRoleGuarded ==
    [][last'.op = "set_role" =>
       LET a == last'.actor
           u == last'.user
           new_role == last'.role
       IN  /\ (DetailDenied(a, u) = 0 /\ new_role \notin ROLE_CHOICES)
              => last'.http = 400 /\ users' = users /\ audits' = audits
           /\ (/\ DetailDenied(a, u) = 0
               /\ u = a
               /\ ~users[a].is_superuser
               /\ new_role \in ROLE_CHOICES \ {"ADMIN"})
              => last'.http = 403 /\ users' = users /\ audits' = audits
           /\ last'.http # 200 => users' = users /\ audits' = audits
           /\ last'.http = 200
              => /\ users'[u].role = new_role
                 /\ audits' = Append(audits,
                       [actor |-> [id |-> a], target_user |-> u,
                        action |-> "ROLE_CHANGE",
                        notes |-> <<users[u].role, users'[u].role>>])]_vars

\* After a role was changed, an admin who is no superuser asked to become a
\* member or a treasurer and was refused
C40_Witness ==
    /\ last.op = "set_role"
    /\ last.http = 403
    /\ last.actor = last.user
    /\ last.role \in {"MEMBER", "TREASURER"}
    /\ users[last.actor].role = "ADMIN"
    /\ ~users[last.actor].is_superuser
    /\ audits # <<>>

====
